---- MODULE Spec2Model ----
(***************************************************************************)
(* Offline-resilient submission and synchronisation of                     *)
(* tracking_app_windows.py: AppState, OfflineQueue and the login / logout  *)
(* / submit_record operations of TrackingAppController, together with the  *)
(* remote service they talk to.                                            *)
(*                                                                         *)
(* The remote is an environment: every request is answered with status     *)
(* 200 ("ok"), with another status ("rej") or not at all, a                *)
(* requests.RequestException ("fail").  Response bodies follow the wire    *)
(* contract (JSON).  The JSON text of the two files is modelled by the     *)
(* value it parses to: the records are flat objects of strings.            *)
(*                                                                         *)
(* Further components, each under a specification of its own: the          *)
(* connectivity probe (SpecConn, SpecLive), TaskRunner (SpecTask), the     *)
(* operations that require a credential and the request helpers            *)
(* (SpecOps), the saved state across login, logout and set_user_name       *)
(* (SpecState, and SpecRound with state files of another version), files   *)
(* whose content is not what the program wrote (SpecFiles: stateKind and   *)
(* queueKind say what the text parses to), the threads that write the two  *)
(* files and the lock of OfflineQueue (SpecLock), the period of the        *)
(* statistics page (SpecWindow) and what the page computes from the lists  *)
(* it fetched (SpecStats: zone is the offset of local time from UTC), and  *)
(* the scanner page in the hands of its user (SpecScan).  SpecFrame,       *)
(* SpecKeep, SpecLogin and SpecPass run the controller from chosen         *)
(* starting states or with a chosen part of its operations.                *)
(***************************************************************************)
EXTENDS Integers, Sequences, FiniteSets, TLC

\* ------------------------------------------------------------------ bounds
MaxSubmits == 1      \* calls of submit_record
MaxDrains == 2       \* passes started by sync_pending
MaxLogins == 1       \* calls of login
MaxCrashes == 1      \* forced exits of the process
MaxAloneLen == 3     \* queue length of the lone drain pass (SpecAlone)
MaxProbes == 3       \* connectivity probes in flight at once
MaxTasks == 2        \* tasks of TaskRunner in flight at once
MaxRecords == 3      \* records in a list the remote sends

SubIds == 1..MaxSubmits
DrainIds == 1..MaxDrains
LoginIds == 1..MaxLogins
ProbeIds == 1..MaxProbes
TaskIds == 1..MaxTasks
MaxIds == IF MaxSubmits > MaxAloneLen THEN MaxSubmits ELSE MaxAloneLen
EntryIds == 0..MaxIds

\* ------------------------------------------------------------------ inputs
Tokens == {"t1"}
NoToken == ""                     \* token None or "": both are falsy
Names == {"u1"}
BoxIds == {"B1", "B2"}
Ttns == {"T1"}
AloneBoxIds == {"B1", "B2", "B3"}
Outcomes == {"ok", "rej", "fail"} \* status 200, other status, RequestException
LoginOutcomes == {"ok", "rej", "fail", "notdict", "notoken"}
NoReport == -1                    \* the sink was not called

\* state, stateFile: the AppState object and tracking_app_state.json
\* queue: offline_queue.json
\* sub, drain, login: the running calls of submit_record, the running
\*   sync_pending workers and the running calls of login, with their locals
\* nSub, nDrain, nLogin, epoch: calls, passes and forced exits so far
\* ev: what the last step returned or reported to its caller
\* accepted, accEpochs, returned: per record, the status-200 answers of the
\*   remote, the process runs they fell in, and whether its submit_record
\*   call returned
\* stateKind, queueKind: what the two files hold when it is not the JSON
\*   that save and add_record write ("dict" and "list")
\* online, probe: TrackingAppController._online and the running probes of
\*   check_connectivity
\* lastEmit: the value of the last connectivity_changed signal, if any
\* task, tasks: the running tasks of TaskRunner, and TaskRunner._tasks
\* lock, cyc: the holder of OfflineQueue._lock, and where each thread that
\*   writes one of the two files is in its write
\* page, zone: the StatisticsPage object, and the offset of the local time
\*   of the machine from UTC
\* scanner: the ScannerPage object and the submissions it gave to its
\*   TaskRunner
VARIABLES state, stateFile, queue, sub, nSub, drain, nDrain, login, nLogin,
          epoch, ev, accepted, accEpochs, returned,
          stateKind, queueKind, online, probe, lastEmit, task, tasks,
          lock, cyc, page, zone, scanner

vars == <<state, stateFile, queue, sub, nSub, drain, nDrain, login, nLogin,
          epoch, ev, accepted, accEpochs, returned,
          stateKind, queueKind, online, probe, lastEmit, task, tasks,
          lock, cyc, page, zone, scanner>>

files == <<stateKind, queueKind>>
conn == <<online, probe, lastEmit>>
side == <<stateKind, queueKind, online, probe, lastEmit, task, tasks, lock, cyc,
          page, zone, scanner>>
extra == <<lock, cyc, page, zone, scanner>>

trace == <<accepted, accEpochs, returned>>

NoEv == [op |-> "none"]

\* ---------------------------------------------------------------- AppState
NoLevel == -1                     \* access_level None

DefaultState ==
    [token |-> NoToken, access_level |-> NoLevel, user_name |-> "",
     user_role |-> "viewer"]

Fields == {"token", "access_level", "user_name", "user_role"}

\* What tracking_app_state.json can hold: a JSON object ("dict", the value
\* is in stateFile), nothing, text that is not JSON, JSON that is not an
\* object.
StateKinds == {"dict", "absent", "garbage", "nondict"}

\* the level in the file is not read
MutStateLoad(file) ==
    [k \in Fields |-> IF k \in DOMAIN file \ {"access_level"} THEN file[k]
                      ELSE DefaultState[k]]

\* AppState.load of a JSON object: cls(**filtered), the known keys of the
\* object and the defaults for the others
StateLoad(file) ==
    [k \in Fields |-> IF k \in DOMAIN file THEN file[k] ELSE DefaultState[k]]

\* the role is not written
MutStateSave(s) == [k \in Fields \ {"user_role"} |-> s[k]]

\* AppState.save: json.dumps(asdict(self))
StateSave(s) == [k \in Fields |-> s[k]]

\* AppState.load: the defaults when there is no file and when reading it
\* raises
LoadState(kind, file) == IF kind = "dict" THEN StateLoad(file) ELSE DefaultState

\* the corrupt file is left in place
MutKindAfterLoad(kind) == kind

\* AppState.load: except Exception: STATE_PATH.unlink(missing_ok=True)
KindAfterLoad(kind) ==
    IF kind \in {"garbage", "nondict"} THEN "absent" ELSE kind

\* ------------------------------------------------------------ OfflineQueue
\* An entry is the record dict plus the number of the submit_record call
\* that made it (0: queued by an earlier run of the program).  The number is
\* not in the file: list membership and equality in the code see rec only.
Entry(r, i) == [rec |-> r, id |-> i]

NoRec == [user_name |-> "", boxid |-> "", ttn |-> ""]

Ids(q) == {q[i].id : i \in 1..Len(q)}
Recs(q) == {q[i].rec : i \in 1..Len(q)}

\* What offline_queue.json can hold: a JSON list ("list", the value is in
\* queue), nothing, text that is not JSON, and JSON that is not a list: null
\* and a number other than 0.  queue is <<>> whenever the kind is not "list".
QueueKinds == {"list", "absent", "garbage", "null", "number"}

\* OfflineQueue._load of a JSON list, and of no file or of text that is not
\* JSON, for which queue is <<>>
QueueLoad(file) == file

\* OfflineQueue._load: except Exception: QUEUE_PATH.unlink(missing_ok=True)
QueueKindAfterLoad(kind) == IF kind = "garbage" THEN "absent" ELSE kind

\* add_record: pending.append(record) raises AttributeError when _load
\* returned None or a number
AppendRaises(kind) == kind \in {"null", "number"}

\* worker: "if not pending" is false for a number other than 0, and
\* "for record in pending" raises TypeError
IterationRaises(kind) == kind = "number"

\* add_record that skips a record already queued
MutAddRecord(file, e) ==
    IF e.rec \in Recs(QueueLoad(file)) THEN QueueLoad(file)
    ELSE Append(QueueLoad(file), e)

\* OfflineQueue.add_record, under the lock
AddRecord(file, e) == Append(QueueLoad(file), e)

\* r not in synced
NotInSynced(e, synced) == \A j \in 1..Len(synced) : synced[j].rec # e.rec

\* the records left in the queue are marked as tried
MutRemaining(file, synced) ==
    LET left == SelectSeq(QueueLoad(file), LAMBDA e : NotInSynced(e, synced))
    IN [i \in 1..Len(left) |-> [left[i] EXCEPT !.rec.ttn = "tried"]]

\* remaining = [r for r in cls._load() if r not in synced]
Remaining(file, synced) ==
    SelectSeq(QueueLoad(file), LAMBDA e : NotInSynced(e, synced))

\* the loop goes on after a transport failure
MutStopsDrain(o) == FALSE

\* except requests.RequestException: break
StopsDrain(o) == o = "fail"

\* every answered request counts as synced
MutIsSynced(o) == o # "fail"

\* if response.status_code == 200: synced.append(record)
IsSynced(o) == o = "ok"

\* the loop walks the snapshot from its end
MutNextRecord(pending, done) == pending[Len(pending) - done]

\* for record in pending: the record of the next iteration
NextRecord(pending, done) == pending[done + 1]

\* synced after the loop: the posted records that got status 200, in order
RECURSIVE SyncedOf(_, _)
SyncedOf(sent, outcomes) ==
    IF outcomes = <<>> THEN <<>>
    ELSE LET n == Len(outcomes)
             rest == SyncedOf(sent, SubSeq(outcomes, 1, n - 1))
         IN IF IsSynced(outcomes[n]) THEN Append(rest, sent[n]) ELSE rest

\* A worker of sync_pending with its locals: token, pending (snapshot), the
\* records posted so far and the answers to them.
IdleDrain ==
    [pc |-> "idle", token |-> NoToken, snapshot |-> <<>>, sent |-> <<>>,
     outcomes |-> <<>>]

EndedDrain == [IdleDrain EXCEPT !.pc = "done"]

\* sync_pending that starts no worker
MutSyncPending(tok) == UNCHANGED <<drain, nDrain>>

\* sync_pending: threading.Thread(target=worker).start()
SyncPending(tok) ==
    /\ nDrain < MaxDrains
    /\ nDrain' = nDrain + 1
    /\ drain' = [drain EXCEPT ![nDrain + 1] =
                    [IdleDrain EXCEPT !.pc = "load", !.token = tok]]

\* The remote answers status 200 to the add_record request for entry i.
Accept(i) ==
    /\ accepted' = [accepted EXCEPT ![i] = @ + 1]
    /\ accEpochs' = [accEpochs EXCEPT ![i] = @ \cup {epoch}]

\* What a pass did, as seen when it ends.
PassEv(d, found, before, after, synced, rep) ==
    [op |-> "pass", id |-> d, token |-> drain[d].token, found |-> found,
     sent |-> drain[d].sent, outcomes |-> drain[d].outcomes,
     before |-> before, removed |-> Ids(before) \ Ids(after),
     okIds |-> Ids(synced), wrote |-> (before # after \/ synced # <<>>),
     reported |-> rep]

\* worker: with cls._lock: pending = cls._load(); if not pending or not token: return
DrainLoad(d) ==
    /\ drain[d].pc = "load"
    /\ LET pending == QueueLoad(queue) IN
         IF (pending = <<>> /\ ~IterationRaises(queueKind))
               \/ drain[d].token = NoToken
         THEN /\ drain' = [drain EXCEPT ![d] = EndedDrain]
              /\ ev' = PassEv(d, pending, queue, queue, <<>>, NoReport)
         ELSE IF IterationRaises(queueKind)
         THEN /\ drain' = [drain EXCEPT ![d] = EndedDrain]
              /\ ev' = PassEv(d, pending, queue, queue, <<>>, NoReport)
         ELSE /\ drain' = [drain EXCEPT ![d].pc = "post", ![d].snapshot = pending]
              /\ ev' = NoEv
    /\ queueKind' = QueueKindAfterLoad(queueKind)
    /\ UNCHANGED <<state, stateFile, queue, sub, nSub, nDrain, login, nLogin,
                   epoch, trace>>
    /\ UNCHANGED <<stateKind, conn, task, tasks, extra>>

\* worker: one iteration of "for record in pending"
DrainPost(d) ==
    /\ drain[d].pc = "post"
    /\ LET n == Len(drain[d].outcomes)
           e == NextRecord(drain[d].snapshot, n)
       IN \E o \in Outcomes :
            /\ IF o = "ok" THEN Accept(e.id) ELSE UNCHANGED <<accepted, accEpochs>>
            /\ drain' = [drain EXCEPT
                  ![d].sent = Append(@, e),
                  ![d].outcomes = Append(@, o),
                  ![d].pc = IF StopsDrain(o) \/ n + 1 = Len(drain[d].snapshot)
                            THEN "remove" ELSE "post"]
    /\ ev' = NoEv
    /\ UNCHANGED <<state, stateFile, queue, sub, nSub, nDrain, login, nLogin,
                   epoch, returned>>
    /\ UNCHANGED side

\* the removal step filters the snapshot the pass took before its requests
MutReloaded(d) == drain[d].snapshot

\* worker: with cls._lock: ... cls._load() ...: the removal step reads the
\* file again, under the lock it took anew after the requests
Reloaded(d) == queue

\* worker: if synced: rewrite the file under the lock; callback(len(synced))
\* (the comprehension over _load() raises TypeError, and the thread ends,
\* when the file has come to hold null or a number)
DrainRemove(d) ==
    /\ drain[d].pc = "remove"
    /\ LET synced == SyncedOf(drain[d].sent, drain[d].outcomes)
           after == IF synced # <<>> THEN Remaining(Reloaded(d), synced) ELSE queue
       IN IF synced # <<>> /\ AppendRaises(queueKind)
          THEN /\ UNCHANGED <<queue, queueKind>>
               /\ ev' = PassEv(d, drain[d].snapshot, queue, queue, <<>>, NoReport)
          ELSE /\ queue' = after
               /\ queueKind' = IF synced # <<>> THEN "list" ELSE queueKind
               /\ ev' = PassEv(d, drain[d].snapshot, queue, after, synced,
                               Len(synced))
    /\ drain' = [drain EXCEPT ![d] = EndedDrain]
    /\ UNCHANGED <<state, stateFile, sub, nSub, nDrain, login, nLogin,
                   epoch, trace>>
    /\ UNCHANGED <<stateKind, conn, task, tasks, extra>>

\* ---------------------------------------------------- writers of the files
\* The threads that write a file: the pool threads that run submit_record
\* (add_record) and login (state.save), the threads of sync_pending (the
\* removal step) and the interactive thread (logout, set_user_name).
Threads ==
    ({"submit"} \X SubIds) \cup ({"drain"} \X DrainIds)
        \cup ({"login"} \X LoginIds) \cup {<<"ui", 0>>}

Ui == <<"ui", 0>>

FileOf(t) == IF t[1] \in {"submit", "drain"} THEN "queue" ELSE "state"

NoThread == <<"none", 0>>

IdleCyc == [t \in Threads |-> "idle"]

\* what the writers of the files leave alone
others ==
    <<state, stateFile, queue, sub, nSub, drain, nDrain, login, nLogin, epoch,
      ev, trace, stateKind, queueKind, conn, task, tasks, page, zone,
      scanner>>

\* "with cls._lock:" of add_record, and of the worker before its load
LockAcquire(t) ==
    /\ t[1] \in {"submit", "drain"}
    /\ cyc[t] = "idle"
    /\ lock = NoThread
    /\ lock' = t
    /\ cyc' = [cyc EXCEPT ![t] = IF t[1] = "drain" THEN "snapshot" ELSE "locked"]
    /\ UNCHANGED others

\* worker: pending = cls._load(), the lock is released, the requests follow
DrainSnapshot(t) ==
    /\ t[1] = "drain"
    /\ cyc[t] = "snapshot"
    /\ lock' = NoThread
    /\ cyc' = [cyc EXCEPT ![t] = "requests"]
    /\ UNCHANGED others

\* worker: "if synced: with cls._lock:", or the end of a pass that synced
\* nothing
DrainRelock(t) ==
    /\ t[1] = "drain"
    /\ cyc[t] = "requests"
    /\ \/ /\ lock = NoThread
          /\ lock' = t
          /\ cyc' = [cyc EXCEPT ![t] = "locked"]
       \/ /\ lock' = lock
          /\ cyc' = [cyc EXCEPT ![t] = "done"]
    /\ UNCHANGED others

\* add_record and the removal step: _load(), the new list, write_text begun
CycleBegin(t) ==
    /\ cyc[t] = "locked"
    /\ cyc' = [cyc EXCEPT ![t] = "write"]
    /\ lock' = lock
    /\ UNCHANGED others

\* write_text has returned and the with block ends
CycleEnd(t) ==
    /\ FileOf(t) = "queue"
    /\ cyc[t] = "write"
    /\ cyc' = [cyc EXCEPT ![t] = "done"]
    /\ lock' = NoThread
    /\ UNCHANGED others

\* LoginDialog._login: the interactive thread gives login to the pool while
\* the dialog is open; the request of login is in flight
LoginStart(t) ==
    /\ t[1] = "login"
    /\ cyc[t] = "idle"
    /\ cyc[Ui] = "idle"
    /\ \A u \in Threads : u[1] = "login" => cyc[u] \in {"idle", "done"}
    /\ cyc' = [cyc EXCEPT ![t] = "requests"]
    /\ lock' = lock
    /\ UNCHANGED others

\* AppState.save called by login on its pool thread, and by logout and
\* set_user_name on the interactive thread while the main window is shown:
\* write_text begun, no lock taken
SaveBegin(t) ==
    /\ FileOf(t) = "state"
    /\ IF t = Ui
       THEN /\ cyc[t] = "idle"
            /\ \A u \in Threads : u[1] = "login" => cyc[u] \in {"idle", "done"}
       ELSE cyc[t] = "requests"
    /\ cyc' = [cyc EXCEPT ![t] = "write"]
    /\ lock' = lock
    /\ UNCHANGED others

\* write_text of AppState.save has returned
SaveEnd(t) ==
    /\ FileOf(t) = "state"
    /\ cyc[t] = "write"
    /\ cyc' = [cyc EXCEPT ![t] = IF t = Ui THEN "idle" ELSE "done"]
    /\ lock' = lock
    /\ UNCHANGED others

\* ------------------------------------------------- TrackingAppController
\* A call of submit_record with its locals record and token.
IdleSub == [pc |-> "idle", rec |-> NoRec, token |-> NoToken]

EndedSub == [IdleSub EXCEPT !.pc = "done"]

\* A call of login with its locals token and access_level.
IdleLogin == [pc |-> "idle", token |-> NoToken, level |-> NoLevel]

EndedLogin == [IdleLogin EXCEPT !.pc = "done"]

\* What a call of submit_record gave its caller: the status of the returned
\* dict or an exception; o is the answer to its request, net the number of
\* requests, spawned the pass it started.
SubmitEv(s, o, net, status, raised, spawned) ==
    [op |-> "submit", id |-> s, rec |-> sub[s].rec, token |-> sub[s].token,
     outcome |-> o, net |-> net, status |-> status, raised |-> raised,
     spawned |-> spawned]

\* What a call of login gave its caller.
LoginEv(l, o, tok, result, spawned) ==
    [op |-> "login", id |-> l, outcome |-> o, token |-> tok,
     result |-> result, spawned |-> spawned]

Return(s) == returned' = returned \cup {s}

\* the network is tried without a token too
MutHasToken(tok) == TRUE

\* submit_record: "if not token" is false
HasToken(tok) == tok # NoToken

\* status 200 is not recognised as success
MutSubmitIs200(o) == FALSE

\* submit_record: if response.status_code == 200
SubmitIs200(o) == o = "ok"

\* the except clause misses the transport failure
MutSubmitCatches(o) == o # "fail"

\* except requests.RequestException: a transport failure raised by
\* requests.post and the RequestException("status ...") raised on a non-200
\* status both land in it
SubmitCatches(o) == o \in Outcomes

\* submit_record: record = {...}; token = self.state.token or ""
SubmitBegin(boxid, ttn) ==
    /\ nSub < MaxSubmits
    /\ nSub' = nSub + 1
    /\ sub' = [sub EXCEPT ![nSub + 1] =
                 [rec |-> [user_name |-> state.user_name, boxid |-> boxid,
                           ttn |-> ttn],
                  token |-> state.token,
                  pc |-> IF HasToken(state.token) THEN "post" ELSE "nocred"]]
    /\ ev' = NoEv
    /\ UNCHANGED <<state, stateFile, queue, drain, nDrain, login, nLogin,
                   epoch, trace>>
    /\ UNCHANGED side

\* submit_record: if not token: OfflineQueue.add_record(record); return offline
\* (the AttributeError of add_record on a file that holds no list leaves
\* submit_record as it is)
SubmitNoCred(s) ==
    /\ sub[s].pc = "nocred"
    /\ IF AppendRaises(queueKind)
       THEN /\ UNCHANGED <<queue, queueKind>>
            /\ ev' = SubmitEv(s, "none", 0, "none", TRUE, 0)
       ELSE /\ queue' = AddRecord(queue, Entry(sub[s].rec, s))
            /\ queueKind' = "list"
            /\ ev' = SubmitEv(s, "none", 0, "offline", FALSE, 0)
    /\ sub' = [sub EXCEPT ![s] = EndedSub]
    /\ Return(s)
    /\ UNCHANGED <<state, stateFile, nSub, drain, nDrain, login, nLogin,
                   epoch, accepted, accEpochs>>
    /\ UNCHANGED <<stateKind, conn, task, tasks, extra>>

\* a transport failure marks the remote as unreachable
MutOnlineAfterSubmit(old, o) == IF o = "fail" THEN FALSE ELSE old

\* submit_record assigns nothing to self._online, whatever the answer
OnlineAfterSubmit(old, o) == old

\* submit_record: the request is answered; status 200: sync_pending and
\* return ok; otherwise the except clause: add_record and return offline
SubmitPost(s) ==
    /\ sub[s].pc = "post"
    /\ \E o \in Outcomes :
         /\ IF o = "ok" THEN Accept(s) ELSE UNCHANGED <<accepted, accEpochs>>
         /\ online' = OnlineAfterSubmit(online, o)
         /\ IF SubmitIs200(o)
            THEN /\ SyncPending(sub[s].token)
                 /\ UNCHANGED <<queue, queueKind>>
                 /\ ev' = SubmitEv(s, o, 1, "ok", FALSE, nDrain')
            ELSE IF SubmitCatches(o) /\ ~AppendRaises(queueKind)
            THEN /\ queue' = AddRecord(queue, Entry(sub[s].rec, s))
                 /\ queueKind' = "list"
                 /\ ev' = SubmitEv(s, o, 1, "offline", FALSE, 0)
                 /\ UNCHANGED <<drain, nDrain>>
            ELSE /\ ev' = SubmitEv(s, o, 1, "none", TRUE, 0)
                 /\ UNCHANGED <<queue, queueKind, drain, nDrain>>
    /\ sub' = [sub EXCEPT ![s] = EndedSub]
    /\ Return(s)
    /\ UNCHANGED <<state, stateFile, nSub, login, nLogin, epoch>>
    /\ UNCHANGED <<stateKind, probe, lastEmit, task, tasks, extra>>

\* login: str(data.get("token", "")) of the response body: the token, ""
\* when the body has no "token", and "None" when its "token" is null
ResponseToken(o, tok) ==
    IF o = "ok" THEN tok ELSE IF o = "nulltoken" THEN "None" ELSE NoToken

\* login: none of the four raises is taken: no transport failure, status
\* 200, the body is a dict, the token is not empty
LoginSucceeds(o, tok) == o \notin {"fail", "rej", "notdict"} /\ tok # NoToken

\* LoginDialog._login disables its button until the call has ended: no
\* two calls of login run at once.
NoLoginRunning == \A l \in LoginIds : login[l].pc # "store"

\* main: the LoginDialog is open, and login can be called, when the state
\* holds no token (at the start and after logout); the MainWindow is
\* shown, and logout can be called, once a login has ended or the loaded
\* state held a token.
DialogOpen == NoLoginRunning /\ state.token = NoToken
WindowShown == NoLoginRunning /\ state.token # NoToken

\* login: requests.post(.../login), the checks of the response, and
\* self.state.token = token; self.state.access_level = access_level
LoginPost(o, tok, level) ==
    /\ nLogin < MaxLogins
    /\ nLogin' = nLogin + 1
    /\ IF LoginSucceeds(o, ResponseToken(o, tok))
       THEN /\ login' = [login EXCEPT ![nLogin + 1] =
                           [pc |-> "store", token |-> ResponseToken(o, tok),
                            level |-> level]]
            /\ state' = [state EXCEPT !.token = ResponseToken(o, tok),
                                      !.access_level = level]
            /\ ev' = NoEv
       ELSE /\ login' = [login EXCEPT ![nLogin + 1] = EndedLogin]
            /\ state' = state
            /\ ev' = LoginEv(nLogin + 1, o, ResponseToken(o, tok), "raised", 0)
    /\ UNCHANGED <<stateFile, queue, sub, nSub, drain, nDrain, epoch, trace>>
    /\ UNCHANGED side

\* login: self.state.user_name = ...; self.state.user_role = ...;
\* self.state.save(); OfflineQueue.sync_pending(token, ...); return data
LoginStore(l, name, role) ==
    /\ login[l].pc = "store"
    /\ state' = [state EXCEPT !.user_name = name, !.user_role = role]
    /\ stateFile' = StateSave(state')
    /\ SyncPending(login[l].token)
    /\ login' = [login EXCEPT ![l] = EndedLogin]
    /\ ev' = LoginEv(l, "ok", login[l].token, "ok", nDrain')
                @@ [level |-> login[l].level, name |-> name, role |-> role]
    /\ stateKind' = "dict"
    /\ UNCHANGED <<queue, sub, nSub, nLogin, epoch, trace>>
    /\ UNCHANGED <<queueKind, conn, task, tasks, extra>>

\* logout discards the queue
MutLogout ==
    /\ state' = [state EXCEPT !.token = NoToken, !.access_level = NoLevel,
                              !.user_role = "viewer"]
    /\ stateFile' = StateSave(state')
    /\ stateKind' = "dict"
    /\ queue' = <<>>
    /\ ev' = [op |-> "logout"]
    /\ UNCHANGED <<sub, nSub, drain, nDrain, login, nLogin, epoch, trace>>
    /\ UNCHANGED <<queueKind, conn, task, tasks, extra>>

\* logout
Logout ==
    /\ state' = [state EXCEPT !.token = NoToken, !.access_level = NoLevel,
                              !.user_role = "viewer"]
    /\ stateFile' = StateSave(state')
    /\ stateKind' = "dict"
    /\ ev' = [op |-> "logout"]
    /\ UNCHANGED <<queue, sub, nSub, drain, nDrain, login, nLogin, epoch, trace>>
    /\ UNCHANGED <<queueKind, conn, task, tasks, extra>>

\* set_user_name
SetUserName(name) ==
    /\ state' = [state EXCEPT !.user_name = name]
    /\ stateFile' = StateSave(state')
    /\ stateKind' = "dict"
    /\ ev' = [op |-> "set_user_name", name |-> name]
    /\ UNCHANGED <<queue, sub, nSub, drain, nDrain, login, nLogin, epoch, trace>>
    /\ UNCHANGED <<queueKind, conn, task, tasks, extra>>

\* Forced exit and restart: every thread dies with its locals, main() loads
\* the state file (state = AppState.load()) and makes a new controller, the
\* two files and the remote keep what they have.
Crash ==
    /\ epoch < MaxCrashes
    /\ epoch' = epoch + 1
    /\ state' = LoadState(stateKind, stateFile)
    /\ stateKind' = KindAfterLoad(stateKind)
    /\ sub' = [s \in SubIds |-> IF sub[s].pc = "idle" THEN sub[s] ELSE EndedSub]
    /\ drain' = [d \in DrainIds |->
                   IF drain[d].pc = "idle" THEN drain[d] ELSE EndedDrain]
    /\ login' = [l \in LoginIds |->
                   IF login[l].pc = "idle" THEN login[l] ELSE EndedLogin]
    /\ ev' = NoEv
    /\ online' = FALSE
    /\ probe' = [p \in ProbeIds |-> [pc |-> "idle", result |-> FALSE]]
    /\ lastEmit' = <<>>
    /\ task' = [t \in TaskIds |->
                  [pc |-> "idle", cbs |-> {}, outcome |-> "none",
                   posted |-> <<>>, fired |-> <<>>]]
    /\ tasks' = <<>>
    /\ lock' = NoThread
    /\ cyc' = IdleCyc
    /\ UNCHANGED <<stateFile, queue, queueKind, nSub, nDrain, nLogin, trace>>
    /\ UNCHANGED <<page, zone, scanner>>

\* ------------------------------------------------------------- the disk
\* Something other than the program overwrites tracking_app_state.json:
\* with text that is not JSON, with JSON that is not an object, or with an
\* object of other keys.
ForeignStateFiles == {[user_name |-> "u1"], [theme |-> "dark"]}

DamageStateFile(kind, file) ==
    /\ kind \in StateKinds \ {"absent"}
    /\ (kind = "dict") = (file # DefaultState)
    /\ stateKind' = kind
    /\ stateFile' = file
    /\ ev' = NoEv
    /\ UNCHANGED <<state, queue, queueKind, sub, nSub, drain, nDrain, login,
                   nLogin, epoch, trace, conn, task, tasks,
                   extra>>

\* Something other than the program overwrites offline_queue.json with
\* something that is not a JSON list.
DamageQueueFile(kind) ==
    /\ kind \in QueueKinds \ {"list", "absent"}
    /\ queueKind' = kind
    /\ queue' = <<>>
    /\ ev' = NoEv
    /\ UNCHANGED <<state, stateFile, stateKind, sub, nSub, drain, nDrain, login,
                   nLogin, epoch, trace, conn, task, tasks,
                   extra>>

\* ------------------------------------------------- requests to the remote
\* What the remote gives to one request: no response (status 0 here: a
\* timeout or a connection error, requests.RequestException) or a response
\* with a status code and a body.
Statuses == {200, 204, 404, 500}

\* Bodies: no content; a JSON object with "detail"; one with "message";
\* one with neither; JSON that is not an object; text that is not JSON.
Bodies == {"empty", "detail", "message", "plain", "list", "invalid"}

NoResponse == [status |-> 0, body |-> "none"]

Answers == {NoResponse} \cup [status : Statuses, body : Bodies]

\* the answers that matter to the controller operations, which read the
\* status only
Replies == {NoResponse} \cup [status : {200, 404, 500}, body : {"detail"}]

IsFail(a) == a.status = 0

\* What a call gives to its caller: a value, or an exception of a class
\* with its message and, for ApiException, its status_code (0: the class
\* has none).
Returned(payload) ==
    [kind |-> "return", payload |-> payload, message |-> <<>>, status |-> 0]

Raised(class, message, status) ==
    [kind |-> class, payload |-> "None", message |-> message, status |-> status]

\* response.json(): the parsed body, or ValueError
Json(body) == IF body \in {"empty", "invalid"} THEN "ValueError" ELSE body

\* UserApi._extract_message
ExtractMessage(body, status) ==
    IF Json(body) = "detail" THEN <<"detail of the server">>
    ELSE IF Json(body) = "message" THEN <<"message of the server">>
    ELSE <<"server error", status>>

\* UserApi._request
Request(a) ==
    IF IsFail(a) THEN Raised("RequestException", <<"no response">>, 0)
    ELSE IF 200 <= a.status /\ a.status < 300
    THEN IF a.body # "empty" /\ Json(a.body) # "ValueError"
         THEN Returned(Json(a.body))
         ELSE Returned("None")
    ELSE Raised("ApiException", ExtractMessage(a.body, a.status), a.status)

\* UserApi._request is called; it touches nothing of the program's state
ApiRequest(a) ==
    /\ ev' = [op |-> "request", answer |-> a, result |-> Request(a)]
    /\ UNCHANGED <<state, stateFile, queue, sub, nSub, drain, nDrain, login,
                   nLogin, epoch, trace, side>>

\* ------------------------------------------- authenticated operations
\* The operations that begin with token = self._require_token().
AuthOps ==
    {"fetch_history", "clear_history", "fetch_errors", "clear_errors",
     "delete_error", "fetch_statistics_payload"}

\* fetch_statistics_payload makes two requests before it looks at either
TwoRequests(name) == name = "fetch_statistics_payload"

\* the token is never asked for
MutMissingToken(tok) == FALSE

\* _require_token: if not self.state.token
MissingToken(tok) == tok = NoToken

\* The outcome of an authenticated operation whose requests get a1 and a2.
AuthResult(name, tok, a1, a2) ==
    IF MissingToken(tok)
    THEN Raised("ApiException", <<"authorization required">>, 401)
    ELSE IF IsFail(a1) \/ (TwoRequests(name) /\ IsFail(a2))
    THEN Raised("RequestException", <<"no response">>, 0)
    ELSE IF TwoRequests(name)
    THEN IF a1.status # 200 \/ a2.status # 200
         THEN Raised("RequestException",
                     <<"history", a1.status, "errors", a2.status>>, 0)
         ELSE Returned("history and errors")
    ELSE IF a1.status # 200
    THEN Raised("RequestException", <<"status", a1.status>>, 0)
    ELSE Returned(name)

\* the number of requests the operation made
AuthNet(name, tok, a1) ==
    IF MissingToken(tok) THEN 0
    ELSE IF TwoRequests(name) /\ ~IsFail(a1) THEN 2 ELSE 1

\* fetch_history, clear_history, fetch_errors, clear_errors, delete_error,
\* fetch_statistics_payload
AuthCall(name, a1, a2) ==
    /\ ev' = [op |-> "call", name |-> name, token |-> state.token,
              first |-> a1,
              second |-> IF TwoRequests(name) /\ ~IsFail(a1) /\ ~MissingToken(state.token)
                         THEN a2 ELSE NoResponse,
              net |-> AuthNet(name, state.token, a1),
              result |-> AuthResult(name, state.token, a1, a2)]
    /\ UNCHANGED <<state, stateFile, queue, sub, nSub, drain, nDrain, login,
                   nLogin, epoch, trace, side>>

\* ------------------------------------------------------------ connectivity
\* A probe of check_connectivity: the worker of one TaskRunner task and,
\* once it returned, its result waiting for on_success.
IdleProbe == [pc |-> "idle", result |-> FALSE]

\* requests.head(API_BASE, timeout=5): a response with its status code, or a
\* RequestException
ProbeStatuses == {200, 404, 499, 500, 503}

ProbeAnswers ==
    [kind : {"response"}, status : ProbeStatuses]
        \cup {[kind |-> "exception", status |-> 0]}

\* the remote answers the probe with status 200
ProbeUp == [kind |-> "response", status |-> 200]

\* a client error counts as no answer
MutProbeResult(a) == a.kind = "response" /\ a.status < 400

\* worker: return response.status_code < 500; except RequestException: False
ProbeResult(a) == a.kind = "response" /\ a.status < 500

\* every completed probe is announced
MutDiffers(old, result) == TRUE

\* on_success: if self._online != result
Differs(old, result) == old # result

\* check_connectivity, called by start_connectivity_checks and by the timer:
\* TaskRunner().submit(worker, on_success=on_success)
CheckConnectivity ==
    /\ \E p \in ProbeIds :
         /\ probe[p].pc = "idle"
         /\ probe' = [probe EXCEPT ![p].pc = "run"]
    /\ ev' = NoEv
    /\ UNCHANGED <<state, stateFile, queue, sub, nSub, drain, nDrain, login,
                   nLogin, epoch, trace, files, online, lastEmit, task, tasks,
                   extra>>

\* check_connectivity.worker, on a pool thread
ProbeWorker(p, a) ==
    /\ probe[p].pc = "run"
    /\ probe' = [probe EXCEPT ![p] = [pc |-> "posted", result |-> ProbeResult(a)]]
    /\ ev' = [op |-> "probe", id |-> p, answer |-> a]
    /\ UNCHANGED <<state, stateFile, queue, sub, nSub, drain, nDrain, login,
                   nLogin, epoch, trace, files, online, lastEmit, task, tasks,
                   extra>>

\* check_connectivity.on_success(result), in the interactive thread
ProbeOnSuccess(p) ==
    /\ probe[p].pc = "posted"
    /\ IF Differs(online, probe[p].result)
       THEN /\ online' = probe[p].result
            /\ lastEmit' = <<probe[p].result>>
            /\ ev' = [op |-> "connectivity_changed", value |-> probe[p].result]
       ELSE /\ UNCHANGED <<online, lastEmit>>
            /\ ev' = [op |-> "probe_done", value |-> probe[p].result]
    /\ probe' = [probe EXCEPT ![p] = IdleProbe]
    /\ UNCHANGED <<state, stateFile, queue, sub, nSub, drain, nDrain, login,
                   nLogin, epoch, trace, files, task, tasks,
                   extra>>

\* ------------------------------------------------------------- TaskRunner
\* A task: the callbacks given to submit, the signals run() has emitted and
\* that wait for the interactive thread, and the callbacks called so far.
IdleTask ==
    [pc |-> "idle", cbs |-> {}, outcome |-> "none", posted |-> <<>>,
     fired |-> <<>>]

\* on_success, on_error, on_finish: each is connected only if given
Callbacks == {"success", "error", "finished"}

\* fn() returns a value or raises an Exception
WorkOutcomes == {"return", "raise"}

\* the finally clause is missing
MutRunSignals(o) ==
    IF o = "return" THEN <<(<<"success", "result">>)>>
    ELSE <<(<<"error", "exc">>)>>

\* TaskRunnable.run: try fn() / except Exception: error.emit(exc) /
\* else: success.emit(result) / finally: finished.emit()
RunSignals(o) ==
    IF o = "return" THEN << <<"success", "result">>, <<"finished", "">> >>
    ELSE << <<"error", "exc">>, <<"finished", "">> >>

\* the oldest task of the list is removed
MutCleanup(list, t) == Tail(list)

\* _cleanup: self._tasks.remove(runnable), the runnables being compared by
\* identity; a ValueError is passed over
Cleanup(list, t) == SelectSeq(list, LAMBDA u : u # t)

\* TaskRunner.submit: the runnable is made and appended to _tasks, the given
\* callbacks and _cleanup are connected and the pool gets the runnable
TaskSubmit(cbs) ==
    /\ \E t \in TaskIds :
         /\ task[t].pc \in {"idle", "done"}
         /\ task' = [task EXCEPT ![t] = [IdleTask EXCEPT !.pc = "queued",
                                                         !.cbs = cbs]]
         /\ tasks' = Append(tasks, t)
    /\ UNCHANGED <<state, stateFile, queue, sub, nSub, drain, nDrain, login,
                   nLogin, epoch, ev, trace, files, conn,
                   extra>>

\* TaskRunnable.run on a pool thread: its signals are queued for the
\* interactive thread in the order of their emission
TaskRun(t, o) ==
    /\ task[t].pc = "queued"
    /\ task' = [task EXCEPT ![t].pc = "ran", ![t].outcome = o,
                            ![t].posted = RunSignals(o)]
    /\ UNCHANGED tasks
    /\ UNCHANGED <<state, stateFile, queue, sub, nSub, drain, nDrain, login,
                   nLogin, epoch, ev, trace, files, conn,
                   extra>>

\* The interactive thread takes the next signal of the task and calls the
\* callback connected to it, if one was given; _cleanup is connected to
\* finished after on_finish.
TaskDeliver(t) ==
    /\ task[t].pc = "ran"
    /\ task[t].posted # <<>>
    /\ task' = [task EXCEPT
          ![t].posted = Tail(@),
          ![t].fired = IF Head(task[t].posted)[1] \in task[t].cbs
                       THEN Append(@, Head(task[t].posted)) ELSE @,
          ![t].pc = IF Len(task[t].posted) = 1 THEN "done" ELSE "ran"]
    /\ tasks' = IF Head(task[t].posted)[1] = "finished" THEN Cleanup(tasks, t)
                ELSE tasks
    /\ UNCHANGED <<state, stateFile, queue, sub, nSub, drain, nDrain, login,
                   nLogin, epoch, ev, trace, files, conn,
                   extra>>

\* --------------------------------------------------------- StatisticsPage
\* Time is counted in seconds.  A date is the number of its day, day 1
\* being 2024-01-01; a time of day is its second of the day; an instant is
\* the seconds from 2024-01-01T00:00:00 UTC.  None is NoDate, NoTime and,
\* for an Optional[datetime], the empty sequence.
Day == 86400
Hour == 3600
NoDate == 0
NoTime == -1
EightOClock == 8 * Hour
EndOfDay == 23 * Hour + 59 * 60 + 59      \* dtime(hour=23, minute=59, second=59)

\* date.replace(day=1): January 2024 has 31 days
FirstOfMonth(d) == IF d <= 31 THEN 1 ELSE 32

\* The "datetime" of a record, by what parse_api_datetime makes of it: an
\* ISO text with an offset (or Z), an ISO text without one, a text that is
\* no date, and no text (the key is missing, or null, or "").  clock is
\* the date and time written in the text, offset the offset written in it.
Stamp(form, date, time, offset) ==
    [form |-> form, clock |-> (date - 1) * Day + time, offset |-> offset]

BadStamp == [form |-> "bad", clock |-> 0, offset |-> 0]
NoStamp == [form |-> "absent", clock |-> 0, offset |-> 0]

\* parse_api_datetime: None for no text and for a text neither
\* fromisoformat nor strptime accepts; the instant of a text with an
\* offset; a text without an offset is taken as UTC
ParseApiDatetime(ts) ==
    IF ts.form \in {"bad", "absent"} THEN <<>>
    ELSE IF ts.form = "aware" THEN <<ts.clock - ts.offset>>
    ELSE <<ts.clock>>

\* dt.astimezone().replace(tzinfo=None): the local date and time, as seconds
\* from 2024-01-01T00:00:00 local
Local(instant) == instant + zone

\* dt.astimezone().date()
LocalDate(instant) == (Local(instant) \div Day) + 1

\* datetime.combine(date, time)
Combine(date, time) == (date - 1) * Day + time

\* _start_datetime
StartDatetime(p) ==
    IF p.start_date = NoDate THEN <<>>
    ELSE <<Combine(p.start_date, IF p.start_time = NoTime THEN 0 ELSE p.start_time)>>

\* _end_datetime
EndDatetime(p) ==
    IF p.end_date = NoDate THEN <<>>
    ELSE <<Combine(p.end_date,
                   IF p.end_time = NoTime THEN EndOfDay ELSE p.end_time)>>

\* the window ends before its end instant
MutKeeps(p, r) ==
    LET dt == ParseApiDatetime(r.datetime)
        start == StartDatetime(p)
        end == EndDatetime(p)
    IN /\ dt # <<>>
       /\ ~(start # <<>> /\ Local(dt[1]) < start[1])
       /\ ~(end # <<>> /\ Local(dt[1]) >= end[1])

\* _filter_records, the body of its loop: the record is appended unless
\* one of the three "continue" is taken
Keeps(p, r) ==
    LET dt == ParseApiDatetime(r.datetime)
        start == StartDatetime(p)
        end == EndDatetime(p)
    IN /\ dt # <<>>
       /\ ~(start # <<>> /\ Local(dt[1]) < start[1])
       /\ ~(end # <<>> /\ Local(dt[1]) > end[1])

\* _filter_records
FilterRecords(p, records) == SelectSeq(records, LAMBDA r : Keeps(p, r))

\* The names of the records: "absent" is a missing key or null.
Placeholder == "unknown user"
NoName == "absent"

\* str.strip, on the names of the model
Strip(name) ==
    CASE name = " u1 " -> "u1"
      [] name = "  " -> ""
      [] OTHER -> name

\* the name is not stripped
MutNameOf(r) ==
    IF r.user_name \in {NoName, "", "  "} THEN Placeholder ELSE r.user_name

\* (record.get("user_name") or placeholder).strip() or placeholder
NameOf(r) ==
    LET given == IF r.user_name \in {NoName, ""} THEN Placeholder
                 ELSE r.user_name
    IN IF Strip(given) = "" THEN Placeholder ELSE Strip(given)

\* counts[name] += 1 on a defaultdict(int): a dict keeps its keys in the
\* order of their insertion, so it is a sequence of <<name, count>>
Bump(counts, name) ==
    IF \E i \in 1..Len(counts) : counts[i][1] = name
    THEN [i \in 1..Len(counts) |->
             IF counts[i][1] = name THEN <<name, counts[i][2] + 1>>
             ELSE counts[i]]
    ELSE Append(counts, <<name, 1>>)

\* _refresh, _populate_timeline: for record in records: counts[name] += 1
RECURSIVE CountByUser(_)
CountByUser(records) ==
    IF records = <<>> THEN <<>>
    ELSE Bump(CountByUser(SubSeq(records, 1, Len(records) - 1)),
              NameOf(records[Len(records)]))

\* ("—", 0)
Sentinel == <<"-", 0>>

\* the last of the entries with the greatest count
RECURSIVE MutTopEntry(_)
MutTopEntry(counts) ==
    IF counts = <<>> THEN Sentinel
    ELSE IF Len(counts) = 1 THEN counts[1]
    ELSE LET best == MutTopEntry(SubSeq(counts, 1, Len(counts) - 1))
         IN IF counts[Len(counts)][2] >= best[2] THEN counts[Len(counts)]
            ELSE best

\* _top_entry: ("—", 0) for no counts; max(counts.items(), key=count) walks
\* the items in their order and keeps the first of the greatest
RECURSIVE TopEntry(_)
TopEntry(counts) ==
    IF counts = <<>> THEN Sentinel
    ELSE IF Len(counts) = 1 THEN counts[1]
    ELSE LET best == TopEntry(SubSeq(counts, 1, Len(counts) - 1))
         IN IF counts[Len(counts)][2] > best[2] THEN counts[Len(counts)]
            ELSE best

\* the local dates of the records whose datetime parses
DatesOf(records) ==
    {LocalDate(ParseApiDatetime(records[i].datetime)[1]) :
        i \in {j \in 1..Len(records) : ParseApiDatetime(records[j].datetime) # <<>>}}

OnDate(records, d) ==
    SelectSeq(records, LAMBDA r :
        /\ ParseApiDatetime(r.datetime) # <<>>
        /\ LocalDate(ParseApiDatetime(r.datetime)[1]) = d)

\* the rows in ascending order of their date
RECURSIVE MutDescending(_)
MutDescending(days) ==
    IF days = {} THEN <<>>
    ELSE LET d == CHOOSE x \in days : \A y \in days : x <= y
         IN <<d>> \o MutDescending(days \ {d})

\* sorted(daily.items(), key=lambda item: item[0], reverse=True)
RECURSIVE Descending(_)
Descending(days) ==
    IF days = {} THEN <<>>
    ELSE LET d == CHOOSE x \in days : \A y \in days : x >= y
         IN <<d>> \o Descending(days \ {d})

\* _populate_timeline: the rows of the table
Timeline(scans, errors) ==
    LET days == Descending(DatesOf(scans) \cup DatesOf(errors))
    IN [i \in 1..Len(days) |->
          [day |-> days[i],
           scans |-> Len(OnDate(scans, days[i])),
           errors |-> Len(OnDate(errors, days[i])),
           leader |-> TopEntry(CountByUser(OnDate(scans, days[i]))),
           worst |-> TopEntry(CountByUser(OnDate(errors, days[i])))]]

\* the records without a date come first
MutFallback == 20000 * Day

\* fallback = datetime.min.replace(tzinfo=timezone.utc): before every date
Fallback == -2000000000

\* key=lambda r: parse_api_datetime(r.get("datetime")) or fallback
SortKey(r) ==
    IF ParseApiDatetime(r.datetime) = <<>> THEN Fallback
    ELSE ParseApiDatetime(r.datetime)[1]

\* list.sort(key=..., reverse=True): descending, and records of equal keys
\* stay in the order they had
RECURSIVE SortDescending(_)
SortDescending(records) ==
    IF records = <<>> THEN <<>>
    ELSE LET sorted == SortDescending(SubSeq(records, 1, Len(records) - 1))
             r == records[Len(records)]
             k == Cardinality({i \in 1..Len(sorted) : SortKey(sorted[i]) >= SortKey(r)})
         IN SubSeq(sorted, 1, k) \o <<r>> \o SubSeq(sorted, k + 1, Len(sorted))

\* What _refresh shows for no records.
NothingShown ==
    [scans |-> <<>>, errors |-> <<>>, scan_counts |-> <<>>,
     error_counts |-> <<>>, top_scan |-> Sentinel,
     top_error |-> Sentinel, timeline |-> <<>>]

\* StatisticsPage.__init__ on the date today
NewPage(today) ==
    [start_date |-> FirstOfMonth(today), end_date |-> today,
     start_time |-> 0, end_time |-> EndOfDay,
     history_records |-> <<>>, error_records |-> <<>>,
     shown |-> NothingShown]

\* the date of the run when the page is not looked at
Today == 2

\* _refresh: the filtered records, the counts by user, the two top entries
\* and the timeline
Refresh(p) ==
    LET scans == FilterRecords(p, p.history_records)
        errors == FilterRecords(p, p.error_records)
    IN [p EXCEPT !.shown =
          [scans |-> scans, errors |-> errors,
           scan_counts |-> CountByUser(scans),
           error_counts |-> CountByUser(errors),
           top_scan |-> TopEntry(CountByUser(scans)),
           top_error |-> TopEntry(CountByUser(errors)),
           timeline |-> Timeline(scans, errors)]]

\* the times are swapped and the dates are not
MutEnsureOrder(p) ==
    IF /\ StartDatetime(p) # <<>> /\ EndDatetime(p) # <<>>
       /\ StartDatetime(p)[1] > EndDatetime(p)[1]
    THEN [p EXCEPT !.start_time = p.end_time, !.end_time = p.start_time]
    ELSE p

\* _ensure_order
EnsureOrder(p) ==
    IF /\ StartDatetime(p) # <<>> /\ EndDatetime(p) # <<>>
       /\ StartDatetime(p)[1] > EndDatetime(p)[1]
    THEN [p EXCEPT !.start_date = p.end_date, !.end_date = p.start_date,
                   !.start_time = p.end_time, !.end_time = p.start_time]
    ELSE p

\* what an edit of the window leaves alone
beside ==
    <<state, stateFile, queue, sub, nSub, drain, nDrain, login, nLogin, epoch,
      trace, stateKind, queueKind, conn, task, tasks, lock, cyc, zone,
      scanner>>

\* _pick_start_date, _pick_end_date, _pick_start_time, _pick_end_time: the
\* dialog gives the value picked, or None when it is cancelled; then
\* _ensure_order and _refresh
Pick(field, value) ==
    /\ page' = Refresh(EnsureOrder([page EXCEPT ![field] = value]))
    /\ ev' = [op |-> "pick", field |-> field, value |-> value]
    /\ UNCHANGED beside

\* _reset_period on the date today
ResetPeriod(today) ==
    /\ page' = Refresh([page EXCEPT !.start_date = FirstOfMonth(today),
                                    !.start_time = 0,
                                    !.end_date = today,
                                    !.end_time = EndOfDay])
    /\ ev' = [op |-> "reset", field |-> "", value |-> today]
    /\ UNCHANGED beside

\* fetch_data: fetch_statistics_payload on a pool thread sorts the two
\* lists it received, on_success stores them and calls _refresh
FetchData ==
    /\ ev.op = "response"
    /\ page' = Refresh([page EXCEPT
                          !.history_records = SortDescending(ev.history),
                          !.error_records = SortDescending(ev.errors)])
    /\ ev' = [ev EXCEPT !.op = "fetched"]
    /\ UNCHANGED beside

\* ------------------------------------------------------------ ScannerPage
\* The texts of the two line edits; the status label holds one of five
\* texts, named here by what they say.
BoxTexts == {"", "  ", "B1"}
TtnTexts == {"", "  ", "T1"}

\* A submission given to self.runner: the texts bound by work(), and the
\* signals of its run that wait for the interactive thread.
IdleRun == [pc |-> "idle", boxid |-> "", ttn |-> "", posted |-> <<>>]

\* ScannerPage.__init__
NewScanner ==
    [stage |-> "box", box_input |-> "", ttn_input |-> "",
     ttn_enabled |-> FALSE, primary_enabled |-> TRUE, status |-> "ready",
     run |-> [t \in TaskIds |-> IdleRun]]

\* the rest of the program, which the page does not touch by itself
apart ==
    <<state, stateFile, queue, sub, nSub, drain, nDrain, login, nLogin, epoch,
      trace, stateKind, queueKind, conn, task, tasks, lock, cyc, page, zone>>

\* reset_fields
ResetFields(sc) ==
    [sc EXCEPT !.stage = "box", !.box_input = "", !.ttn_input = "",
               !.ttn_enabled = FALSE, !.status = "ready"]

\* _submit, called by the event "by": nothing when the stage is not "ttn",
\* a warning when a field is empty; otherwise the button is disabled and
\* the submission is given to the runner with the texts as they are now
ScannerSubmit(by) ==
    IF scanner.stage # "ttn"
    THEN /\ scanner' = scanner
         /\ ev' = [op |-> "ignored", by |-> by]
    ELSE IF Strip(scanner.box_input) = "" \/ Strip(scanner.ttn_input) = ""
    THEN /\ scanner' = scanner
         /\ ev' = [op |-> "warning", by |-> by]
    ELSE \E t \in TaskIds :
           /\ scanner.run[t].pc = "idle"
           /\ scanner' = [scanner EXCEPT
                 !.primary_enabled = FALSE,
                 !.status = "sending",
                 !.run[t] = [pc |-> "queued",
                             boxid |-> Strip(scanner.box_input),
                             ttn |-> Strip(scanner.ttn_input),
                             posted |-> <<>>]]
           /\ ev' = [op |-> "submitted", by |-> by]

\* _on_primary: in the stage "box" the page moves on to the tracking
\* number, in the stage "ttn" it submits
OnPrimary(by) ==
    IF scanner.stage = "box"
    THEN IF Strip(scanner.box_input) = ""
         THEN /\ scanner' = scanner
              /\ ev' = [op |-> "warning", by |-> by]
         ELSE /\ scanner' = [scanner EXCEPT !.stage = "ttn",
                                            !.status = "enter_ttn",
                                            !.ttn_enabled = TRUE]
              /\ ev' = [op |-> "stage", by |-> by]
    ELSE ScannerSubmit(by)

\* primary_button.clicked, which a disabled button does not emit
ClickPrimary ==
    /\ scanner.primary_enabled
    /\ OnPrimary("primary_button")
    /\ UNCHANGED apart

\* box_input.returnPressed
EnterBox ==
    /\ OnPrimary("box_input")
    /\ UNCHANGED apart

\* ttn_input.returnPressed, which a disabled line edit does not emit
EnterTtn ==
    /\ scanner.ttn_enabled
    /\ ScannerSubmit("ttn_input")
    /\ UNCHANGED apart

\* reset_button.clicked
ClickReset ==
    /\ scanner' = ResetFields(scanner)
    /\ ev' = [op |-> "reset_fields", by |-> "reset_button"]
    /\ UNCHANGED apart

\* The user or the scanner device writes in a line edit.
EditBox(v) ==
    /\ v # scanner.box_input
    /\ scanner' = [scanner EXCEPT !.box_input = v]
    /\ ev' = [op |-> "edit", by |-> "box_input"]
    /\ UNCHANGED apart

EditTtn(v) ==
    /\ scanner.ttn_enabled
    /\ v # scanner.ttn_input
    /\ scanner' = [scanner EXCEPT !.ttn_input = v]
    /\ ev' = [op |-> "edit", by |-> "ttn_input"]
    /\ UNCHANGED apart

\* work() on a pool thread: submit_record returns or raises
ScannerWork(t, o) ==
    /\ scanner.run[t].pc = "queued"
    /\ scanner' = [scanner EXCEPT !.run[t].pc = "ran",
                                  !.run[t].posted = RunSignals(o)]
    /\ UNCHANGED ev
    /\ UNCHANGED apart

\* The interactive thread calls the callback of the next signal:
\* on_success sets the message and calls reset_fields, on_error sets the
\* text of the exception, on_finish enables the button
ScannerDeliver(t) ==
    /\ scanner.run[t].pc = "ran"
    /\ LET sig == Head(scanner.run[t].posted)[1]
           sc == IF sig = "success" THEN ResetFields(scanner)
                 ELSE IF sig = "error" THEN [scanner EXCEPT !.status = "error"]
                 ELSE [scanner EXCEPT !.primary_enabled = TRUE]
       IN /\ scanner' = [sc EXCEPT
                 !.run[t] = IF Len(scanner.run[t].posted) = 1 THEN IdleRun
                            ELSE [@ EXCEPT !.posted = Tail(@)]]
          /\ ev' = [op |-> "callback", by |-> sig]
    /\ UNCHANGED apart

\* ------------------------------------------------------- specifications
\* The memory of a process that has just started and files as the program
\* writes them.
SideInit ==
    /\ stateKind = "dict"
    /\ queueKind = "list"
    /\ online = FALSE
    /\ probe = [p \in ProbeIds |-> IdleProbe]
    /\ lastEmit = <<>>
    /\ task = [t \in TaskIds |-> IdleTask]
    /\ tasks = <<>>
    /\ lock = NoThread
    /\ cyc = IdleCyc
    /\ scanner = NewScanner
    /\ page = NewPage(Today)
    /\ zone = 0

\* A record queued by an earlier run of the program.
LeftOver == Entry([user_name |-> "u1", boxid |-> "B1", ttn |-> "T1"], 0)

Init ==
    /\ state = DefaultState
    /\ stateFile = DefaultState
    /\ queue \in {<<>>, <<LeftOver>>}
    /\ sub = [s \in SubIds |-> IdleSub]
    /\ nSub = 0
    /\ drain = [d \in DrainIds |-> IdleDrain]
    /\ nDrain = 0
    /\ login = [l \in LoginIds |-> IdleLogin]
    /\ nLogin = 0
    /\ epoch = 0
    /\ ev = NoEv
    /\ accepted = [i \in EntryIds |-> 0]
    /\ accEpochs = [i \in EntryIds |-> {}]
    /\ returned = {}
    /\ SideInit

Next ==
    \/ \E b \in BoxIds, t \in Ttns : SubmitBegin(b, t)
    \/ \E s \in SubIds : SubmitNoCred(s)
    \/ \E s \in SubIds : SubmitPost(s)
    \/ \E o \in LoginOutcomes, tok \in Tokens : DialogOpen /\ LoginPost(o, tok, 0)
    \/ \E l \in LoginIds, name \in Names : LoginStore(l, name, "operator")
    \/ WindowShown /\ Logout
    \/ \E d \in DrainIds : DrainLoad(d)
    \/ \E d \in DrainIds : DrainPost(d)
    \/ \E d \in DrainIds : DrainRemove(d)
    \/ Crash

Spec == Init /\ [][Next]_vars

\* The writers of the two files, each at its own pace.
NextLock ==
    \/ \E t \in Threads : LockAcquire(t)
    \/ \E t \in Threads : DrainSnapshot(t)
    \/ \E t \in Threads : DrainRelock(t)
    \/ \E t \in Threads : CycleBegin(t)
    \/ \E t \in Threads : CycleEnd(t)
    \/ \E t \in Threads : LoginStart(t)
    \/ \E t \in Threads : SaveBegin(t)
    \/ \E t \in Threads : SaveEnd(t)

SpecLock == Init /\ [][NextLock]_vars

\* The statistics page alone: the rest of the program at rest.
Elsewhere ==
    /\ state = DefaultState
    /\ stateFile = DefaultState
    /\ queue = <<>>
    /\ sub = [s \in SubIds |-> IdleSub]
    /\ nSub = 0
    /\ drain = [d \in DrainIds |-> IdleDrain]
    /\ nDrain = 0
    /\ login = [l \in LoginIds |-> IdleLogin]
    /\ nLogin = 0
    /\ epoch = 0
    /\ accepted = [i \in EntryIds |-> 0]
    /\ accEpochs = [i \in EntryIds |-> {}]
    /\ returned = {}
    /\ stateKind = "dict"
    /\ queueKind = "list"
    /\ online = FALSE
    /\ probe = [p \in ProbeIds |-> IdleProbe]
    /\ lastEmit = <<>>
    /\ task = [t \in TaskIds |-> IdleTask]
    /\ tasks = <<>>
    /\ lock = NoThread
    /\ cyc = IdleCyc
    /\ scanner = NewScanner

\* The edits of the window of the page, on dates around the end of January.
Dates == {1, 2, 31, 32}
Times == {0, EightOClock, 23 * Hour + 59 * 60}     \* the dialog gives HH:mm

InitWindow ==
    /\ Elsewhere
    /\ page \in {NewPage(today) : today \in Dates}
    /\ zone = 0
    /\ ev = NoEv

NextWindow ==
    \/ \E d \in Dates \cup {NoDate} : Pick("start_date", d)
    \/ \E d \in Dates \cup {NoDate} : Pick("end_date", d)
    \/ \E t \in Times \cup {NoTime} : Pick("start_time", t)
    \/ \E t \in Times \cup {NoTime} : Pick("end_time", t)
    \/ \E today \in Dates : ResetPeriod(today)

SpecWindow == InitWindow /\ [][NextWindow]_vars

\* One fetch of the page: the two lists the remote sends, the window and
\* the zone of the machine are drawn, fetch_data sorts, stores and shows.
Zones == {-9 * Hour, 0, 2 * Hour}

Rec(stamp, name) == [datetime |-> stamp, user_name |-> name]

ListsOf(S, n) == UNION {[1..k -> S] : k \in 0..n}

\* records that differ in their datetime
StampRecs ==
    {Rec(Stamp("naive", d, EightOClock, 0), "u1") : d \in 1..3}
        \cup {Rec(Stamp("aware", d, EightOClock, 2 * Hour), "u1") : d \in 1..3}
        \cup {Rec(Stamp("naive", 2, 0, 0), "u1"),
              Rec(Stamp("naive", 2, EndOfDay, 0), "u1"),
              Rec(Stamp("naive", 3, 0, 0), "u1"),
              Rec(BadStamp, "u1"), Rec(NoStamp, "u1")}

\* records that differ in their user_name
NameRecs ==
    {Rec(Stamp("naive", d, EightOClock, 0), n) :
        d \in 1..2, n \in {"u1", "u2", " u1 ", "  ", NoName}}

ErrorLists ==
    {<<>>,
     <<Rec(Stamp("naive", 3, EightOClock, 0), "u1")>>,
     <<Rec(Stamp("naive", 2, EightOClock, 0), "u2"),
       Rec(Stamp("naive", 3, EightOClock, 0), "u1"),
       Rec(Stamp("naive", 2, EightOClock, 0), "u1")>>}

Window(sd, st, ed, et) ==
    [NewPage(Today) EXCEPT !.start_date = sd, !.start_time = st,
                           !.end_date = ed, !.end_time = et]

AllData == Window(NoDate, NoTime, NoDate, NoTime)

Windows ==
    {AllData,
     Window(2, 0, 2, EndOfDay),
     Window(2, NoTime, 2, NoTime),
     Window(2, EightOClock, NoDate, NoTime),
     Window(NoDate, NoTime, 2, EightOClock)}

Response(h, e) == [op |-> "response", history |-> h, errors |-> e]

InitStats ==
    /\ Elsewhere
    /\ \/ /\ ev \in {Response(h, <<>>) : h \in ListsOf(StampRecs, MaxRecords)}
          /\ page \in Windows
          /\ zone \in Zones
       \/ /\ ev \in {Response(h, e) : h \in ListsOf(NameRecs, MaxRecords),
                                      e \in ErrorLists}
          /\ page \in {AllData, Window(2, 0, 2, EndOfDay)}
          /\ zone \in {-9 * Hour, 0}

NextStats == FetchData

SpecStats == InitStats /\ [][NextStats]_vars

\* A drain pass running alone on a queue left by earlier runs.
AloneRecs == {[user_name |-> "u1", boxid |-> b, ttn |-> "T1"] : b \in AloneBoxIds}

AloneQueues ==
    UNION {{[i \in 1..n |-> Entry(f[i], i)] : f \in [1..n -> AloneRecs]} :
           n \in 0..MaxAloneLen}

InitAlone ==
    /\ state = [DefaultState EXCEPT !.token = "t1", !.user_name = "u1"]
    /\ stateFile = state
    /\ queue \in AloneQueues
    /\ sub = [s \in SubIds |-> IdleSub]
    /\ nSub = 0
    /\ drain = [d \in DrainIds |->
                  IF d = 1 THEN [IdleDrain EXCEPT !.pc = "load", !.token = "t1"]
                  ELSE IdleDrain]
    /\ nDrain = 1
    /\ login = [l \in LoginIds |-> IdleLogin]
    /\ nLogin = 0
    /\ epoch = 0
    /\ ev = NoEv
    /\ accepted = [i \in EntryIds |-> 0]
    /\ accEpochs = [i \in EntryIds |-> {}]
    /\ returned = {}
    /\ SideInit

NextAlone ==
    \/ \E d \in DrainIds : DrainLoad(d)
    \/ \E d \in DrainIds : DrainPost(d)
    \/ \E d \in DrainIds : DrainRemove(d)

SpecAlone == InitAlone /\ [][NextAlone]_vars

\* sync_pending called with a token or with "", on a queue left by earlier
\* runs.
InitPass ==
    /\ state = [DefaultState EXCEPT !.token = "t1", !.user_name = "u1"]
    /\ stateFile = state
    /\ queue \in AloneQueues
    /\ sub = [s \in SubIds |-> IdleSub]
    /\ nSub = 0
    /\ \E tok \in {NoToken, "t1"} :
          drain = [d \in DrainIds |->
                     IF d = 1 THEN [IdleDrain EXCEPT !.pc = "load", !.token = tok]
                     ELSE IdleDrain]
    /\ nDrain = 1
    /\ login = [l \in LoginIds |-> IdleLogin]
    /\ nLogin = 0
    /\ epoch = 0
    /\ ev = NoEv
    /\ accepted = [i \in EntryIds |-> 0]
    /\ accEpochs = [i \in EntryIds |-> {}]
    /\ returned = {}
    /\ SideInit

SpecPass == InitPass /\ [][NextAlone]_vars

\* Drain passes on a queue of three records left by earlier runs, all
\* different or the first and the last equal, while records are submitted.
KeepQueues ==
    {[i \in 1..3 |->
        Entry([user_name |-> "u1", boxid |-> f[i], ttn |-> "T1"], i)] :
     f \in {<<"B1", "B2", "B3">>, <<"B1", "B2", "B1">>}}

InitKeep == InitAlone /\ queue \in KeepQueues

NextKeep ==
    \/ NextAlone
    \/ \E t \in Ttns : SubmitBegin("B1", t)
    \/ \E s \in SubIds : SubmitNoCred(s)
    \/ \E s \in SubIds : SubmitPost(s)
    \/ WindowShown /\ Logout

SpecKeep == InitKeep /\ [][NextKeep]_vars

\* The connectivity probes of a started controller.
NextConn ==
    \/ CheckConnectivity
    \/ \E p \in ProbeIds, a \in ProbeAnswers : ProbeWorker(p, a)
    \/ \E p \in ProbeIds : ProbeOnSuccess(p)

SpecConn == Init /\ [][NextConn]_vars

\* The operations of the controller called one after another, and
\* UserApi._request.
NextOps ==
    \/ \E n \in AuthOps, a1 \in Replies, a2 \in Replies :
          (TwoRequests(n) \/ a2 = NoResponse) /\ AuthCall(n, a1, a2)
    \/ \E a \in Answers : ApiRequest(a)
    \/ \E t \in Ttns : SubmitBegin("B1", t)
    \/ \E s \in SubIds : SubmitNoCred(s)
    \/ \E s \in SubIds : SubmitPost(s)
    \/ \E o \in LoginOutcomes, tok \in Tokens : DialogOpen /\ LoginPost(o, tok, 0)
    \/ \E l \in LoginIds, name \in Names : LoginStore(l, name, "operator")
    \/ WindowShown /\ Logout

SpecOps == Init /\ [][NextOps]_vars

Levels == {NoLevel, 0, 1}
Roles == {"operator", "admin", "viewer"}

\* login, logout and set_user_name called one after another, and restarts.
NextState ==
    \/ \E o \in LoginOutcomes, tok \in Tokens, lv \in Levels :
          DialogOpen /\ LoginPost(o, tok, lv)
    \/ \E l \in LoginIds, name \in Names, role \in Roles : LoginStore(l, name, role)
    \/ WindowShown /\ Logout
    \/ \E name \in Names \cup {"u2"} : NoLoginRunning /\ SetUserName(name)
    \/ Crash

SpecState == Init /\ [][NextState]_vars

\* The answers to the login request: those of LoginOutcomes and a JSON
\* object whose "token" is null.
LoginReplies == LoginOutcomes \cup {"nulltoken"}

\* Logins that get any of these answers, logout, and the drain passes.
NextLogin ==
    \/ \E o \in LoginReplies, tok \in Tokens, lv \in Levels :
          DialogOpen /\ LoginPost(o, tok, lv)
    \/ \E l \in LoginIds, name \in Names, role \in Roles : LoginStore(l, name, role)
    \/ WindowShown /\ Logout
    \/ \E d \in DrainIds : DrainLoad(d)
    \/ \E d \in DrainIds : DrainPost(d)
    \/ \E d \in DrainIds : DrainRemove(d)

SpecLogin == Init /\ [][NextLogin]_vars

\* A state file written by another version of the program: some of the
\* fields, with values no login of this run gives, and a key the record
\* does not have.
OtherState ==
    [token |-> "t9", access_level |-> 9, user_name |-> "u9",
     user_role |-> "guest", theme |-> "dark"]

OtherStateFiles ==
    {[k \in K |-> OtherState[k]] : K \in SUBSET (Fields \cup {"theme"})}

\* login, logout and set_user_name, restarts, and state files of another
\* version found at a restart.
NextRound ==
    \/ NextState
    \/ \E f \in OtherStateFiles : DamageStateFile("dict", f)

SpecRound == Init /\ [][NextRound]_vars

\* requests.head raises a RequestException
ProbeDown == [kind |-> "exception", status |-> 0]

\* no other pass is between its load and its end
AloneInPass(d) ==
    \A e \in DrainIds \ {d} : drain[e].pc \notin {"post", "remove"}

\* every call of submit_record has returned
NoSubmitRunning == \A s \in SubIds : sub[s].pc \in {"idle", "done"}

\* The operations of the controller, called one after another, and the
\* drain passes, one pass at a time, while the timer probes the remote, one
\* probe at a time.
NextFrame ==
    \/ /\ \A p \in ProbeIds : probe[p].pc = "idle"
       /\ CheckConnectivity
       /\ probe'[1].pc = "run"
    \/ \E a \in {ProbeUp, ProbeDown} : ProbeWorker(1, a)
    \/ ProbeOnSuccess(1)
    \/ \E t \in Ttns : NoSubmitRunning /\ SubmitBegin("B1", t)
    \/ \E s \in SubIds : SubmitNoCred(s)
    \/ \E s \in SubIds : SubmitPost(s)
    \/ \E o \in {"ok", "fail"}, tok \in Tokens : DialogOpen /\ LoginPost(o, tok, 0)
    \/ \E l \in LoginIds, name \in Names : LoginStore(l, name, "operator")
    \/ WindowShown /\ Logout
    \/ \E d \in DrainIds : AloneInPass(d) /\ DrainLoad(d)
    \/ \E d \in DrainIds : DrainPost(d)
    \/ \E d \in DrainIds : DrainRemove(d)
    \/ \E n \in {"fetch_history", "fetch_statistics_payload"},
          a \in {NoResponse, [status |-> 200, body |-> "detail"]} :
          AuthCall(n, a, NoResponse)

SpecFrame == Init /\ [][NextFrame]_vars

\* The two files are damaged from outside while the program runs with a
\* credential and is restarted.
InitFiles ==
    /\ state = [DefaultState EXCEPT !.token = "t1", !.user_name = "u1"]
    /\ stateFile = StateSave(state)
    /\ queue \in {<<>>, <<LeftOver>>}
    /\ sub = [s \in SubIds |-> IdleSub]
    /\ nSub = 0
    /\ drain = [d \in DrainIds |->
                  IF d = 1 THEN [IdleDrain EXCEPT !.pc = "load", !.token = "t1"]
                  ELSE IdleDrain]
    /\ nDrain = 1
    /\ login = [l \in LoginIds |-> IdleLogin]
    /\ nLogin = 0
    /\ epoch = 0
    /\ ev = NoEv
    /\ accepted = [i \in EntryIds |-> 0]
    /\ accEpochs = [i \in EntryIds |-> {}]
    /\ returned = {}
    /\ SideInit

NextFiles ==
    \/ \E k \in StateKinds, f \in ForeignStateFiles \cup {DefaultState} :
          DamageStateFile(k, f)
    \/ \E k \in QueueKinds : DamageQueueFile(k)
    \/ Crash
    \/ \E b \in BoxIds, t \in Ttns : SubmitBegin(b, t)
    \/ \E s \in SubIds : SubmitNoCred(s)
    \/ \E s \in SubIds : SubmitPost(s)
    \/ \E d \in DrainIds : DrainLoad(d)
    \/ \E d \in DrainIds : DrainPost(d)
    \/ \E d \in DrainIds : DrainRemove(d)

SpecFiles == InitFiles /\ [][NextFiles]_vars

\* Tasks submitted to a TaskRunner.
NextTask ==
    \/ \E cbs \in SUBSET Callbacks : TaskSubmit(cbs)
    \/ \E t \in TaskIds, o \in WorkOutcomes : TaskRun(t, o)
    \/ \E t \in TaskIds : TaskDeliver(t)

SpecTask == Init /\ [][NextTask]_vars

\* The scanner page in the hands of its user.
NextScan ==
    \/ \E v \in BoxTexts : EditBox(v)
    \/ \E v \in TtnTexts : EditTtn(v)
    \/ ClickPrimary
    \/ EnterBox
    \/ EnterTtn
    \/ ClickReset
    \/ \E t \in TaskIds, o \in WorkOutcomes : ScannerWork(t, o)
    \/ \E t \in TaskIds : ScannerDeliver(t)

SpecScan == Init /\ [][NextScan]_vars

\* From the moment the remote is reachable and accepts every record: a
\* credential is held and saved, records are queued, and the process has
\* just restarted (no pass), or a pass has just started, or a pass has just
\* had its transport failure.  The user does nothing; the threads and the
\* connectivity timer keep running.
FailedDrain(q) ==
    [IdleDrain EXCEPT !.pc = "remove", !.token = "t1", !.snapshot = q,
                      !.sent = <<q[1]>>, !.outcomes = <<"fail">>]

InitLive ==
    /\ state = [DefaultState EXCEPT !.token = "t1", !.user_name = "u1"]
    /\ stateFile = state
    /\ queue \in AloneQueues \ {<<>>}
    /\ sub = [s \in SubIds |-> IdleSub]
    /\ nSub = 0
    /\ \E first \in {IdleDrain, [IdleDrain EXCEPT !.pc = "load", !.token = "t1"],
                      FailedDrain(queue)} :
         /\ drain = [d \in DrainIds |-> IF d = 1 THEN first ELSE IdleDrain]
         /\ nDrain = IF first = IdleDrain THEN 0 ELSE 1
    /\ login = [l \in LoginIds |-> IdleLogin]
    /\ nLogin = 0
    /\ epoch = 0
    /\ ev = NoEv
    /\ accepted = [i \in EntryIds |-> 0]
    /\ accEpochs = [i \in EntryIds |-> {}]
    /\ returned = {}
    /\ SideInit

\* worker: a record of the pass is answered with status 200
DrainPostAccepted(d) == DrainPost(d) /\ accepted' # accepted

NextLive ==
    \/ \E d \in DrainIds : DrainLoad(d)
    \/ \E d \in DrainIds : DrainPostAccepted(d)
    \/ \E d \in DrainIds : DrainRemove(d)
    \/ CheckConnectivity
    \/ \E p \in ProbeIds : ProbeWorker(p, ProbeUp)
    \/ \E p \in ProbeIds : ProbeOnSuccess(p)

\* Every started thread runs on and the timer keeps firing.
FairLive ==
    /\ WF_vars(\E d \in DrainIds : DrainLoad(d))
    /\ WF_vars(\E d \in DrainIds : DrainPostAccepted(d))
    /\ WF_vars(\E d \in DrainIds : DrainRemove(d))
    /\ WF_vars(CheckConnectivity)
    /\ WF_vars(\E p \in ProbeIds : ProbeWorker(p, ProbeUp))
    /\ WF_vars(\E p \in ProbeIds : ProbeOnSuccess(p))

SpecLive == InitLive /\ [][NextLive]_vars /\ FairLive

\* ------------------------------------------------------------ properties
Last(q) == q[Len(q)]
Distinct(q) == \A i, j \in 1..Len(q) : i # j => q[i].rec # q[j].rec
AddedBy(s) == queue' = Append(queue, Entry(sub[s].rec, s))
SubmitReturns(s) == sub[s].pc \in {"nocred", "post"} /\ ev'.op = "submit" /\ ev'.id = s
LoginReturns(l) == login[l].pc = "store" /\ ev'.op = "login" /\ ev'.id = l
Started(d, tok) ==
    /\ d \in DrainIds
    /\ d = nDrain
    /\ drain[d] = [IdleDrain EXCEPT !.pc = "load", !.token = tok]

\* C1: a record whose submit_record call returned is accepted by the remote
\* (status 200) or is in the durable queue, under every interleaving.
NoLoss ==
    \A s \in returned : accepted[s] >= 1 \/ s \in Ids(queue)

\* C2: a drain pass running alone on pairwise distinct entries e1..en, with
\* e1..e(k-1) accepted and ek a transport failure, attempts nothing after ek,
\* leaves the queue [ek..en] in order and reports k-1.
FifoDrainAlone ==
    ev.op = "pass" /\ Distinct(ev.found) =>
        \A k \in 1..Len(ev.outcomes) :
            (/\ ev.outcomes[k] = "fail"
             /\ \A j \in 1..(k - 1) : ev.outcomes[j] = "ok")
            => /\ Len(ev.sent) = k
               /\ queue = SubSeq(ev.found, k, Len(ev.found))
               /\ ev.reported = k - 1

FifoDrainAloneWitness ==
    /\ ev.op = "pass"
    /\ Len(ev.found) = 3
    /\ Distinct(ev.found)
    /\ ev.outcomes = <<"ok", "fail">>
    /\ queue = SubSeq(ev.found, 2, 3)
    /\ ev.reported = 1

\* C3: every entry a drain pass removes from the durable queue was accepted
\* in that pass, and the number removed is the count reported to the sink.
RemovedOnlyAccepted ==
    ev.op = "pass" =>
        /\ ev.removed \subseteq ev.okIds
        /\ Cardinality(ev.removed) =
               (IF ev.reported = NoReport THEN 0 ELSE ev.reported)

\* C4: with a credential held, a transport failure of the immediate
\* submission appends the record, returns "offline" as a normal result, starts
\* no drain pass and raises nothing.
TransportFailureQueuedStep ==
    \A s \in SubIds :
        SubmitReturns(s) /\ ev'.outcome = "fail"
        => /\ AddedBy(s)
           /\ drain' = drain
           /\ nDrain' = nDrain

\* C4: a transport failure with a credential held queues the record, returns
\* "offline" normally and starts no pass (step and result together).
TransportFailureQueued ==
    /\ [][TransportFailureQueuedStep]_vars
    /\ [](ev.op = "submit" /\ ev.outcome = "fail" =>
            /\ ev.token # NoToken
            /\ ev.status = "offline"
            /\ ~ev.raised
            /\ ev.spawned = 0
            /\ queue # <<>>
            /\ Last(queue) = Entry(ev.rec, ev.id))

TransportFailureQueuedWitness ==
    /\ ev.op = "submit"
    /\ ev.outcome = "fail"
    /\ ev.token = "t1"
    /\ ev.status = "offline"
    /\ Len(queue) = 2
    /\ queue[2].id = ev.id

\* C5: without a credential submit_record appends the record (the queue
\* grows by one), returns "offline", makes no network call and starts no pass.
NoCredentialQueuedStep ==
    \A s \in SubIds :
        SubmitReturns(s) /\ ev'.token = NoToken
        => /\ AddedBy(s)
           /\ Len(queue') = Len(queue) + 1
           /\ accepted' = accepted
           /\ drain' = drain
           /\ nDrain' = nDrain

\* C5: without a credential the record is queued, "offline" is returned, and
\* no request is made and no pass started (step and result together).
NoCredentialQueued ==
    /\ [][NoCredentialQueuedStep]_vars
    /\ [](ev.op = "submit" /\ ev.token = NoToken =>
            /\ ev.status = "offline"
            /\ ~ev.raised
            /\ ev.outcome = "none"
            /\ ev.net = 0
            /\ ev.spawned = 0
            /\ accepted[ev.id] = 0)
    /\ [](\A s \in SubIds : sub[s].token = NoToken => sub[s].pc # "post")

NoCredentialQueuedWitness ==
    /\ ev.op = "submit"
    /\ ev.token = NoToken
    /\ ev.status = "offline"
    /\ ev.net = 0
    /\ Len(queue) = 1
    /\ queue[1].id = ev.id

\* C6: with a credential held and the record accepted (status 200),
\* submit_record returns "ok", does not queue the record and starts exactly one
\* drain pass; a pass that finds the queue empty leaves it empty.
AcceptedOkStep ==
    \A s \in SubIds :
        SubmitReturns(s) /\ ev'.outcome = "ok"
        => /\ queue' = queue
           /\ nDrain' = nDrain + 1
           /\ \A d \in DrainIds \ {nDrain'} : drain'[d] = drain[d]

\* C6: an accepted submission returns "ok", is not queued and starts exactly
\* one pass; a pass on an empty queue leaves it empty.
AcceptedOk ==
    /\ [][AcceptedOkStep]_vars
    /\ [](ev.op = "submit" /\ ev.outcome = "ok" =>
            /\ ev.token # NoToken
            /\ ev.status = "ok"
            /\ ~ev.raised
            /\ ev.id \notin Ids(queue)
            /\ accepted[ev.id] = 1
            /\ Started(ev.spawned, ev.token))
    /\ [](ev.op = "pass" /\ ev.found = <<>> =>
            /\ ev.sent = <<>>
            /\ ~ev.wrote
            /\ queue = ev.before
            /\ (ev.token # NoToken => queue = <<>>))

AcceptedOkWitness ==
    /\ ev.op = "pass"
    /\ ev.id = 1
    /\ nDrain = 1
    /\ ev.token = "t1"
    /\ ev.found = <<>>
    /\ queue = <<>>
    /\ \E s \in returned : accepted[s] = 1

\* C7: add_record appends exactly one entry at the end and leaves the
\* existing entries and their order unchanged, also when an equal record is
\* already queued.
AppendOnlyStep ==
    \A s \in SubIds :
        SubmitReturns(s) /\ ev'.status = "offline"
        => /\ AddedBy(s)
           /\ Len(queue') = Len(queue) + 1
           /\ SubSeq(queue', 1, Len(queue)) = queue

\* C7: every add_record step appends one entry and keeps the rest in place.
AppendOnly == [][AppendOnlyStep]_vars

AppendOnlyWitness ==
    /\ ev.op = "submit"
    /\ ev.status = "offline"
    /\ Len(queue) = 2
    /\ queue[1].rec = queue[2].rec
    /\ queue[1].id # queue[2].id
    /\ queue[2].id = ev.id

\* C8: a record accepted by the remote in a drain pass that was killed is
\* not accepted again by the drain after the restart.
CrashSafeDrain ==
    \A i \in EntryIds : Cardinality(accEpochs[i]) <= 1

\* C9 as stated: in a pass no entry is accepted after an earlier entry of
\* the snapshot was attempted and not accepted.
NoAcceptAfterUnaccepted ==
    \A d \in DrainIds :
        \A i, j \in 1..Len(drain[d].outcomes) :
            i < j /\ drain[d].outcomes[j] = "ok" => drain[d].outcomes[i] = "ok"

\* C9 amended: a pass submits the entries of its snapshot in queue order and
\* attempts nothing after a transport failure; a non-200 response does not
\* stop it.
DrainInOrder ==
    \A d \in DrainIds :
        /\ Len(drain[d].sent) <= Len(drain[d].snapshot)
        /\ drain[d].sent = SubSeq(drain[d].snapshot, 1, Len(drain[d].sent))
        /\ Len(drain[d].outcomes) = Len(drain[d].sent)
        /\ \A i, j \in 1..Len(drain[d].outcomes) :
              i < j => drain[d].outcomes[i] # "fail"
        /\ drain[d].pc = "post" => Len(drain[d].sent) < Len(drain[d].snapshot)
        /\ drain[d].pc = "remove" =>
              \/ Len(drain[d].sent) = Len(drain[d].snapshot)
              \/ Last(drain[d].outcomes) = "fail"

DrainInOrderWitness ==
    \E d \in DrainIds :
        /\ drain[d].pc = "remove"
        /\ Len(drain[d].snapshot) = 2
        /\ drain[d].outcomes = <<"rej", "ok">>

\* C10: a drain pass is started by every successful login, with the token
\* just stored and saved, and by every successful online submission, and by
\* no failed login and no failed submission.
DrainTriggersStep ==
    /\ \A d \in DrainIds :
          nDrain' # nDrain \/ (drain[d].pc = "idle" /\ drain'[d].pc # "idle") =>
              /\ nDrain' = nDrain + 1
              /\ \/ \E l \in LoginIds : LoginReturns(l) /\ ev'.result = "ok"
                 \/ \E s \in SubIds : SubmitReturns(s) /\ ev'.outcome = "ok"
    /\ \A l \in LoginIds : LoginReturns(l) => nDrain' = nDrain + 1
    /\ \A s \in SubIds :
          SubmitReturns(s) =>
              nDrain' = IF ev'.outcome = "ok" THEN nDrain + 1 ELSE nDrain

Delivered(p) == probe[p].pc = "posted" /\ probe'[p].pc = "idle"

\* C12: connectivity_changed is emitted exactly when a completed probe's
\* result differs from the last known state, so two consecutive events never
\* carry the same value and is_online is the value of the last event.
ConnDedupStep ==
    \A p \in ProbeIds :
        Delivered(p) =>
            /\ (ev'.op = "connectivity_changed") = (probe[p].result # online)
            /\ ev'.op = "connectivity_changed" =>
                  /\ ev'.value = probe[p].result
                  /\ lastEmit' = <<ev'.value>>
                  /\ lastEmit # lastEmit'
            /\ ev'.op # "connectivity_changed" => lastEmit' = lastEmit

\* C12: no event is repeated and is_online follows the last event, for
\* probes completing and being delivered in any order.
ConnDedup ==
    /\ [][ConnDedupStep]_vars
    /\ [](lastEmit # <<>> => online = lastEmit[1])

ConnDedupWitness ==
    /\ ev.op = "probe_done"
    /\ ev.value = TRUE
    /\ lastEmit = <<TRUE>>
    /\ \E p \in ProbeIds : probe[p].pc = "posted" /\ probe[p].result = FALSE

\* C13: after the first completed probe a change event has been emitted,
\* whether the probe found the remote reachable or not.
FirstProbeEmits ==
    ev.op \in {"probe_done", "connectivity_changed"} => lastEmit # <<>>

\* C11: with a credential held and the remote accepting, a non-empty queue
\* is eventually drained without a further login or submission.
PeriodicDrain ==
    (HasToken(state.token) /\ queue # <<>>) ~> (queue = <<>>)

Given(cbs, sigs) == SelectSeq(sigs, LAMBDA g : g[1] \in cbs)
Expected(o) ==
    IF o = "return" THEN << <<"success", "result">>, <<"finished", "">> >>
    ELSE << <<"error", "exc">>, <<"finished", "">> >>
Count(name, sigs) == Cardinality({i \in 1..Len(sigs) : sigs[i][1] = name})

\* C14: of the callbacks given for a task, exactly one of success (with the
\* result) and failure (with the exception) is called, by what the work did,
\* and then the completion callback, once, whether the work returned or
\* raised; nothing is called before the work ran.
TaskCallbacks ==
    \A t \in TaskIds :
        /\ task[t].pc = "queued" => task[t].fired = <<>>
        /\ task[t].pc \in {"ran", "done"} =>
              task[t].fired \o Given(task[t].cbs, task[t].posted)
                  = Given(task[t].cbs, Expected(task[t].outcome))
        /\ task[t].pc = "done" =>
              /\ task[t].posted = <<>>
              /\ Count("success", task[t].fired) + Count("error", task[t].fired)
                    <= 1
              /\ {"success", "error"} \subseteq task[t].cbs =>
                    /\ Count("success", task[t].fired)
                          + Count("error", task[t].fired) = 1
                    /\ task[t].fired[1] = Expected(task[t].outcome)[1]
              /\ "finished" \in task[t].cbs =>
                    /\ Count("finished", task[t].fired) = 1
                    /\ Last(task[t].fired)[1] = "finished"

TaskCallbacksWitness ==
    \E t, u \in TaskIds :
        /\ task[t].pc = "done"
        /\ task[t].cbs = Callbacks
        /\ task[t].fired = << <<"error", "exc">>, <<"finished", "">> >>
        /\ task[u].pc = "done"
        /\ task[u].cbs = Callbacks
        /\ task[u].fired = << <<"success", "result">>, <<"finished", "">> >>

\* C15: without a stored credential every authenticated operation fails with
\* status 401 before any request, and leaves credential and queue as they are.
AuthRequiredStep ==
    ev'.op = "call" => UNCHANGED <<state, stateFile, queue, drain, nDrain>>

AuthRequired ==
    /\ [][AuthRequiredStep]_vars
    /\ [](ev.op = "call" /\ ev.token = NoToken =>
            /\ ev.result.kind = "ApiException"
            /\ ev.result.status = 401
            /\ ev.net = 0)

AuthRequiredWitness ==
    /\ ev.op = "call"
    /\ ev.name = "fetch_statistics_payload"
    /\ ev.token = NoToken
    /\ ev.result.status = 401
    /\ queue # <<>>
    /\ nLogin = 1

\* C16: a response with a status outside 2xx reaches the caller as a failure
\* with the server's message and status code, also from submit_record, and
\* never as a transport failure or as "offline".
IsServerError(a) == ~IsFail(a) /\ ~(200 <= a.status /\ a.status < 300)

ServerErrorSurfaced ==
    /\ ev.op = "call" /\ ev.net > 0 /\ IsServerError(ev.first) =>
          /\ ev.result.kind = "ApiException"
          /\ ev.result.status = ev.first.status
          /\ ev.result.message = ExtractMessage(ev.first.body, ev.first.status)
    /\ ev.op = "submit" /\ ev.outcome = "rej" =>
          ev.raised /\ ev.status # "offline"

\* C17: UserApi._request returns a payload or raises ApiException with a
\* message and a status code; without a response the code of the exception
\* is none of the server's status codes.
RemoteErrorOnly ==
    ev.op = "request" =>
        /\ ev.result.kind \in {"return", "ApiException"}
        /\ ev.result.kind = "ApiException" =>
              /\ ev.result.message # <<>>
              /\ IsFail(ev.answer) = (ev.result.status \notin Statuses)

\* C18: a state file that is not JSON, or not a JSON object, makes
\* AppState.load give the default state, without an error, and is deleted.
CorruptStateRecoveredStep ==
    epoch' = epoch + 1 /\ stateKind \in {"garbage", "nondict"} =>
        /\ state' = DefaultState
        /\ stateKind' = "absent"
        /\ ev' = NoEv

CorruptStateRecovered == [][CorruptStateRecoveredStep]_vars

CorruptStateRecoveredWitness ==
    /\ epoch = 1
    /\ stateKind = "absent"
    /\ state = DefaultState
    /\ queue # <<>>

\* C19: whatever the queue file holds, add_record(r) raises nothing and
\* leaves a JSON list whose last entry is r.
QueueSelfHeals ==
    ev.op = "submit" /\ ev.status # "ok" =>
        /\ ~ev.raised
        /\ queueKind = "list"
        /\ queue # <<>>
        /\ Last(queue) = Entry(ev.rec, ev.id)

\* C20: a successful login leaves the token, level, name and role it got in
\* memory and in the file, logout leaves no token and no level in both, and
\* after each of login, logout and set_user_name a restart loads the state
\* that is in memory.
CredentialStep ==
    /\ epoch' = epoch + 1 /\ NoLoginRunning => state' = state
    /\ ev'.op = "logout" /\ ev # ev' =>
          /\ state'.token = NoToken
          /\ state'.access_level = NoLevel
          /\ state'.user_name = state.user_name

CredentialLifecycle ==
    /\ [][CredentialStep]_vars
    /\ [](NoLoginRunning => stateKind = "dict" /\ StateLoad(stateFile) = state)
    /\ [](ev.op = "login" /\ ev.result = "ok" =>
            /\ state.token = ev.token
            /\ state.access_level = ev.level
            /\ state.user_name = ev.name
            /\ state.user_role = ev.role
            /\ ev.token \in Tokens)
    /\ [](ev.op = "logout" => state.token = NoToken /\ state.access_level = NoLevel)
    /\ [](ev.op = "set_user_name" => state.user_name = ev.name)

CredentialLifecycleWitness ==
    /\ epoch = 1
    /\ state.token = "t1"
    /\ state.access_level = 1
    /\ state.user_name = "u2"
    /\ state.user_role = "admin"
    /\ StateLoad(stateFile) = state

\* C21: a drain pass holds no lock while it submits: add_record completes
\* between the load and the removal step of a pass, and an entry appended
\* then, whose record equals none of the records the pass synced, is in
\* the queue file after the removal step.
AppendedIn(e) ==
    /\ \E i \in 1..Len(ev.before) : ev.before[i] = e
    /\ \A i \in 1..Len(ev.found) : ev.found[i] # e

SyncedIn(e) ==
    \E j \in 1..Len(ev.sent) : ev.outcomes[j] = "ok" /\ ev.sent[j].rec = e.rec

AppendedSurvives ==
    ev.op = "pass" =>
        \A i \in 1..Len(ev.before) :
            AppendedIn(ev.before[i]) /\ ~SyncedIn(ev.before[i]) =>
                \E k \in 1..Len(queue) : queue[k] = ev.before[i]

AppendedSurvivesWitness ==
    /\ ev.op = "pass"
    /\ ev.okIds # {}
    /\ ev.removed # {}
    /\ \E k \in 1..Len(queue) :
          /\ AppendedIn(queue[k])
          /\ ~SyncedIn(queue[k])
          /\ queue[k].id \in returned

\* C22: each file has one writer at a time, and each writer of a file holds
\* the mutex of that file: OfflineQueue._lock for the queue file; AppState
\* has no lock, and save takes none.
Writers(f) == {t \in Threads : FileOf(t) = f /\ cyc[t] = "write"}

HoldsMutexOf(t, f) == f = "queue" /\ lock = t

NoOverlap == \A f \in {"queue", "state"} : Cardinality(Writers(f)) <= 1

OneWriterUnderMutex ==
    /\ NoOverlap
    /\ \A f \in {"queue", "state"} : \A t \in Writers(f) : HoldsMutexOf(t, f)

\* C24: whenever the window of the statistics page has a start and an end,
\* the start is not after the end, after every edit and reset.
WindowOrdered ==
    StartDatetime(page) # <<>> /\ EndDatetime(page) # <<>> =>
        StartDatetime(page)[1] <= EndDatetime(page)[1]

\* the date picked as start was after the end and has become the end
WindowOrderedWitness ==
    /\ ev.op = "pick"
    /\ ev.field = "start_date"
    /\ ev.value # NoDate
    /\ page.end_date = ev.value
    /\ page.start_date \notin {NoDate, ev.value}
    /\ page.start_time # 0
    /\ StartDatetime(page)[1] < EndDatetime(page)[1]

\* The page after fetch_data: ev holds the two lists as they were received.
Fetched == ev.op = "fetched"

Occurrences(seq, x) == Cardinality({i \in 1..Len(seq) : seq[i] = x})

Members(seq) == {seq[i] : i \in 1..Len(seq)}

InWindow(r) ==
    LET dt == ParseApiDatetime(r.datetime)
    IN /\ dt # <<>>
       /\ StartDatetime(page) # <<>> => Local(dt[1]) >= StartDatetime(page)[1]
       /\ EndDatetime(page) # <<>> => Local(dt[1]) <= EndDatetime(page)[1]

KeepsExactly(records, kept) ==
    /\ Members(kept) \subseteq Members(records)
    /\ \A r \in Members(records) :
          Occurrences(kept, r) = IF InWindow(r) THEN Occurrences(records, r) ELSE 0

MiddleDayWindow ==
    /\ page.start_date = 2 /\ page.end_date = 2
    /\ page.start_time \in {0, NoTime}
    /\ page.end_time \in {EndOfDay, NoTime}

\* three records written as 08:00 on days 3, 2 and 1, no offset given
WrittenAtEight(records) ==
    /\ Len(records) = 3
    /\ \A i \in 1..3 :
          /\ records[i].datetime = Stamp("naive", 4 - i, EightOClock, 0)

\* three records whose local time is 08:00 on days 3, 2 and 1
LocalAtEight(records) ==
    /\ Len(records) = 3
    /\ \A i \in 1..3 :
          /\ ParseApiDatetime(records[i].datetime) # <<>>
          /\ Local(ParseApiDatetime(records[i].datetime)[1])
                = Combine(4 - i, EightOClock)

\* C23 as stated: _filter_records keeps exactly the records whose datetime
\* parses and whose local time is within the window, both ends included;
\* of three records at 08:00 on consecutive days, a window of the middle day
\* keeps the middle one alone.
FilterWindowStated ==
    Fetched =>
        /\ KeepsExactly(page.history_records, page.shown.scans)
        /\ KeepsExactly(page.error_records, page.shown.errors)
        /\ MiddleDayWindow /\ WrittenAtEight(page.history_records) =>
              page.shown.scans = <<page.history_records[2]>>

\* C23 amended: the same, for three records whose local time is 08:00 on
\* consecutive local days (the machine's offset from UTC moves a record
\* written as 08:00 UTC to another local day when it is -9 h or less).
FilterWindow ==
    Fetched =>
        /\ KeepsExactly(page.history_records, page.shown.scans)
        /\ KeepsExactly(page.error_records, page.shown.errors)
        /\ MiddleDayWindow /\ LocalAtEight(page.history_records) =>
              page.shown.scans = <<page.history_records[2]>>

FilterWindowWitness ==
    /\ Fetched
    /\ zone = 2 * Hour
    /\ MiddleDayWindow
    /\ LocalAtEight(page.history_records)
    /\ page.shown.scans = <<page.history_records[2]>>

\* C25: _top_entry gives the sentinel for no counts; for counts it gives an
\* entry of the greatest count, the first of them in the order of the
\* mapping.
FirstOfGreatest(counts, top) ==
    IF counts = <<>> THEN top = Sentinel
    ELSE \E i \in 1..Len(counts) :
            /\ counts[i] = top
            /\ \A j \in 1..Len(counts) : counts[j][2] <= top[2]
            /\ \A j \in 1..(i - 1) : counts[j][2] < top[2]

TopEntryFirstMax ==
    Fetched =>
        /\ FirstOfGreatest(page.shown.scan_counts, page.shown.top_scan)
        /\ FirstOfGreatest(page.shown.error_counts, page.shown.top_error)

TopEntryFirstMaxWitness ==
    /\ Fetched
    /\ Len(page.shown.scan_counts) = 2
    /\ page.shown.scan_counts[1][2] = page.shown.scan_counts[2][2]
    /\ page.shown.top_scan = page.shown.scan_counts[1]
    /\ page.shown.error_counts = <<>>
    /\ page.shown.top_error = Sentinel

\* C26: the timeline has one row for each local date of a scan or an error,
\* the later date first; a row counts the scans and the errors of its date,
\* its leader and its worst are the top entries of the counts by user of
\* that date, and the scans of the rows add up to the filtered scans.
DateOf(r) == LocalDate(ParseApiDatetime(r.datetime)[1])

RECURSIVE SumScans(_)
SumScans(rows) ==
    IF rows = <<>> THEN 0
    ELSE rows[Len(rows)].scans + SumScans(SubSeq(rows, 1, Len(rows) - 1))

DailyTimeline ==
    Fetched =>
        LET rows == page.shown.timeline
            scans == page.shown.scans
            errors == page.shown.errors
        IN /\ {rows[i].day : i \in 1..Len(rows)}
                 = {DateOf(r) : r \in Members(scans) \cup Members(errors)}
           /\ \A i, j \in 1..Len(rows) : i < j => rows[i].day > rows[j].day
           /\ \A i \in 1..Len(rows) :
                 /\ rows[i].scans = Cardinality({k \in 1..Len(scans) :
                                        DateOf(scans[k]) = rows[i].day})
                 /\ rows[i].errors = Cardinality({k \in 1..Len(errors) :
                                        DateOf(errors[k]) = rows[i].day})
                 /\ rows[i].leader
                       = TopEntry(CountByUser(OnDate(scans, rows[i].day)))
                 /\ rows[i].worst
                       = TopEntry(CountByUser(OnDate(errors, rows[i].day)))
           /\ SumScans(rows) = Len(scans)

DailyTimelineWitness ==
    /\ Fetched
    /\ zone = -9 * Hour
    /\ Len(page.shown.timeline) = 3
    /\ page.shown.timeline[1].scans = 0
    /\ page.shown.timeline[1].leader = Sentinel
    /\ page.shown.timeline[1].errors = 1
    /\ page.shown.timeline[2].scans = 2
    /\ page.shown.timeline[2].errors = 2
    /\ page.shown.timeline[2].leader[2] = 1
    /\ page.shown.timeline[3].scans = 1

\* C27: the listings are in descending order of their instants, the records
\* without a datetime that parses after all the others, and each is a
\* permutation of the list received.
SortedListing(received, listed) ==
    /\ Len(listed) = Len(received)
    /\ \A r \in Members(received) \cup Members(listed) :
          Occurrences(listed, r) = Occurrences(received, r)
    /\ \A i, j \in 1..Len(listed) :
          i < j =>
             LET a == ParseApiDatetime(listed[i].datetime)
                 b == ParseApiDatetime(listed[j].datetime)
             IN /\ a = <<>> => b = <<>>
                /\ a # <<>> /\ b # <<>> => a[1] >= b[1]

ListingsSorted ==
    Fetched =>
        /\ SortedListing(ev.history, page.history_records)
        /\ SortedListing(ev.errors, page.error_records)

ListingsSortedWitness ==
    /\ Fetched
    /\ Len(ev.history) = 3
    /\ ev.history[1].datetime.form = "bad"
    /\ ev.history[2].datetime = Stamp("naive", 2, 0, 0)
    /\ ev.history[3].datetime = Stamp("aware", 2, EightOClock, 2 * Hour)
    /\ page.history_records = <<ev.history[3], ev.history[2], ev.history[1]>>

\* C28 as stated: the counts map each name to its number of records, the
\* blank, the whitespace-only and the absent name under one placeholder;
\* they add up to the number of records, with one key for each name.
Blank(name) == name \in {NoName, "", "  "}

AsGiven(name) == IF Blank(name) THEN Placeholder ELSE name

Trimmed(name) == IF Blank(name) THEN Placeholder ELSE Strip(name)

RECURSIVE SumCounts(_)
SumCounts(counts) ==
    IF counts = <<>> THEN 0
    ELSE counts[Len(counts)][2] + SumCounts(SubSeq(counts, 1, Len(counts) - 1))

CountsOf(records, counts, Label(_)) ==
    /\ \A i, j \in 1..Len(counts) : i # j => counts[i][1] # counts[j][1]
    /\ {counts[i][1] : i \in 1..Len(counts)}
          = {Label(r.user_name) : r \in Members(records)}
    /\ \A i \in 1..Len(counts) :
          counts[i][2] = Cardinality({k \in 1..Len(records) :
                             Label(records[k].user_name) = counts[i][1]})
    /\ SumCounts(counts) = Len(records)

CountsByNameStated ==
    Fetched =>
        /\ CountsOf(page.shown.scans, page.shown.scan_counts, AsGiven)
        /\ CountsOf(page.shown.errors, page.shown.error_counts, AsGiven)

\* C28 amended: the same, the names being compared after the white space
\* around them is removed.
CountsByName ==
    Fetched =>
        /\ CountsOf(page.shown.scans, page.shown.scan_counts, Trimmed)
        /\ CountsOf(page.shown.errors, page.shown.error_counts, Trimmed)

CountsByNameWitness ==
    /\ Fetched
    /\ Len(page.shown.scans) = 3
    /\ {r.user_name : r \in Members(page.shown.scans)} = {" u1 ", "u1", "  "}
    /\ Len(page.shown.scan_counts) = 2
    /\ \E i \in 1..2 : page.shown.scan_counts[i] = <<"u1", 2>>
    /\ \E i \in 1..2 : page.shown.scan_counts[i] = <<Placeholder, 1>>

\* C29: a probe gives Offline when the request raised a transport error or
\* the status of the response is 500 or more, and Online for every other
\* response.
ProbeVerdict ==
    ev.op = "probe" =>
        /\ probe[ev.id].pc = "posted"
        /\ probe[ev.id].result
              = ~(ev.answer.kind = "exception" \/ ev.answer.status >= 500)

ProbeVerdictWitness ==
    /\ ev.op = "probe"
    /\ ev.answer = [kind |-> "response", status |-> 404]
    /\ probe[ev.id].result = TRUE
    /\ \E p \in ProbeIds :
          /\ probe[p].pc = "posted"
          /\ probe[p].result = FALSE
    /\ online = TRUE

\* state.save() has just been called: by login, logout or set_user_name
Saved ==
    \/ ev.op \in {"logout", "set_user_name"}
    \/ ev.op = "login" /\ ev.result = "ok"

\* a restart that finds a JSON object in the state file
RoundTripStep ==
    epoch' = epoch + 1 /\ stateKind = "dict" =>
        /\ DOMAIN state' = Fields
        /\ \A k \in Fields :
              state'[k] = IF k \in DOMAIN stateFile THEN stateFile[k]
                          ELSE DefaultState[k]

InFlight(t) == task[t].pc \in {"queued", "ran"}

TaskCompletes(t) == task[t].pc = "ran" /\ task'[t].pc = "done"

\* C31: _tasks holds a task from its submission until its finished signal
\* is delivered and not afterwards, each task once; the delivery removes
\* that task and leaves the others as they were, and with every submitted
\* task completed the list is empty.
TasksHeldStep ==
    \A t \in TaskIds :
        TaskCompletes(t) =>
            /\ Occurrences(tasks, t) = 1
            /\ Occurrences(tasks', t) = 0
            /\ tasks' = SelectSeq(tasks, LAMBDA u : u # t)

TasksHeld ==
    /\ [](\A t \in TaskIds :
             Occurrences(tasks, t) = IF InFlight(t) THEN 1 ELSE 0)
    /\ []((\A t \in TaskIds : ~InFlight(t)) => tasks = <<>>)
    /\ [][TasksHeldStep]_vars

TasksHeldWitness ==
    /\ task[1].pc = "ran"
    /\ task[2].pc = "done"
    /\ task[2].fired # <<>>
    /\ tasks = <<1>>

\* C32: is_online changes, and connectivity_changed is emitted, only when a
\* probe's result is delivered: submit_record (a transport failure
\* included), login, logout, the fetch operations and the drain passes
\* leave both as they are.
OnlineFrameStep ==
    (online' # online \/ lastEmit' # lastEmit
        \/ (ev'.op = "connectivity_changed" /\ ev' # ev))
    => \E p \in ProbeIds : Delivered(p)

OnlineFrame == [][OnlineFrameStep]_vars

OnlineFrameWitness ==
    /\ online = TRUE
    /\ lastEmit = <<TRUE>>
    /\ ev.op = "submit"
    /\ ev.outcome = "fail"
    /\ ev.status = "offline"

\* a is b with some of its entries left out
RECURSIVE IsSubSeq(_, _)
IsSubSeq(a, b) ==
    IF a = <<>> THEN TRUE
    ELSE IF b = <<>> THEN FALSE
    ELSE IF Head(a) = Head(b) THEN IsSubSeq(Tail(a), Tail(b))
    ELSE IsSubSeq(a, Tail(b))

DrainStep(d) ==
    /\ drain[d].pc \in {"load", "post", "remove"}
    /\ drain'[d] # drain[d]

\* the entry a returning call of submit_record has passed to add_record
Added(e) ==
    \E s \in SubIds :
        SubmitReturns(s) /\ ev'.status = "offline" /\ e = Entry(sub[s].rec, s)

\* C33: a step of a drain pass leaves in the queue file entries that were
\* in it, in the order they had; an entry comes into the file only by
\* add_record, one at a time, so the queue is always a sub-multiset of the
\* records queued by earlier runs and passed to add_record.
DrainOnlyRemovesStep ==
    /\ \A d \in DrainIds : DrainStep(d) => IsSubSeq(queue', queue)
    /\ \A e \in Members(queue') :
          Occurrences(queue', e)
              <= Occurrences(queue, e) + (IF Added(e) THEN 1 ELSE 0)

DrainOnlyRemoves == [][DrainOnlyRemovesStep]_vars

DrainOnlyRemovesWitness ==
    /\ ev.op = "pass"
    /\ Len(ev.found) = 3
    /\ Len(ev.before) = 4
    /\ ev.outcomes = <<"rej", "ok", "rej">>
    /\ ev.reported = 1
    /\ queue = <<ev.before[1], ev.before[3], ev.before[4]>>

\* C34: with drain passes overlapping in one run of the program, no queued
\* entry is accepted by the remote more than once.
OverlapOnce ==
    epoch = 0 => \A i \in EntryIds : accepted[i] <= 1

\* the login request of this step got no answer, a status other than 200, a
\* body that is no object, or a body without a token ("token" missing or
\* null)
LoginRefused ==
    /\ nLogin' = nLogin + 1
    /\ \/ ev'.op = "login" /\ ev'.result = "raised"
       \/ login'[nLogin'].token = "None"

\* C35: a login that fails leaves the state in memory, the state file and
\* the queue as they are and starts no drain pass.
FailedLoginStep ==
    LoginRefused => UNCHANGED <<state, stateFile, queue, drain, nDrain>>

FailedLogin == [][FailedLoginStep]_vars

\* the same for the logins that raise
RaisedLoginStep ==
    nLogin' = nLogin + 1 /\ ev'.op = "login" /\ ev'.result = "raised"
    => UNCHANGED <<state, stateFile, queue, drain, nDrain>>

RaisedLogin == [][RaisedLoginStep]_vars

NoneAccepted == \A j \in 1..Len(ev.outcomes) : ev.outcomes[j] # "ok"

\* C36: a pass that finds the queue empty, or has an empty token, makes no
\* request, does not rewrite the queue file and does not call the sink; a
\* pass that finds records and gets none of them accepted does not rewrite
\* the file and reports 0.
IdlePass ==
    ev.op = "pass" =>
        /\ ev.found = <<>> \/ ev.token = NoToken =>
              /\ ev.sent = <<>>
              /\ \A i \in EntryIds : accepted[i] = 0
              /\ ~ev.wrote
              /\ queue = ev.before
              /\ ev.reported = NoReport
        /\ ev.found # <<>> /\ ev.token # NoToken /\ NoneAccepted =>
              /\ ev.sent # <<>>
              /\ ~ev.wrote
              /\ queue = ev.before
              /\ ev.reported = 0

IdlePassWitness ==
    /\ ev.op = "pass"
    /\ ev.token = "t1"
    /\ Len(ev.found) = 3
    /\ ev.outcomes = <<"rej", "rej", "fail">>
    /\ queue = ev.found
    /\ ev.reported = 0

\* a pass started with an empty token on a queue that holds records
EmptyTokenPass ==
    /\ ev.op = "pass"
    /\ ev.token = NoToken
    /\ Len(ev.found) = 3
    /\ ev.sent = <<>>
    /\ queue = ev.found
    /\ ev.reported = NoReport

LogoutStep ==
    ev'.op = "logout" /\ state.token # NoToken /\ state'.token = NoToken

\* C37: logout leaves the queue and the running passes as they are, a pass
\* keeps the token it was started with, and a submit_record call that finds
\* no token, as every call does from logout until a login stores one,
\* appends its record without a request.
LogoutFrameStep ==
    /\ LogoutStep => UNCHANGED <<queue, drain, nDrain, accepted>>
    /\ \A d \in DrainIds :
          drain[d].pc \in {"load", "post", "remove"}
              /\ drain'[d].pc \in {"post", "remove"}
          => drain'[d].token = drain[d].token
    /\ state.token = NoToken /\ state'.token # NoToken =>
          /\ nLogin' = nLogin + 1
          /\ login'[nLogin'].pc = "store"
    /\ nSub' = nSub + 1 /\ state.token = NoToken => sub'[nSub'].pc = "nocred"
    /\ \A s \in SubIds :
          SubmitReturns(s) /\ sub[s].pc = "nocred" =>
              /\ ev'.net = 0
              /\ AddedBy(s)
              /\ accepted' = accepted

InFlightRuns == {t \in TaskIds : scanner.run[t].pc # "idle"}

StartsRun ==
    \E u \in TaskIds :
        scanner.run[u].pc = "idle" /\ scanner'.run[u].pc = "queued"

\* C38: while a submission of the scanner page is in flight, no click of
\* the primary button and no Enter in either field starts a second
\* submission of the same box and tracking number.
OneSubmissionStep ==
    \A t \in InFlightRuns, u \in TaskIds :
        scanner.run[u].pc = "idle" /\ scanner'.run[u].pc = "queued" =>
            <<scanner'.run[u].boxid, scanner'.run[u].ttn>>
                # <<scanner.run[t].boxid, scanner.run[t].ttn>>

OneSubmission == [][OneSubmissionStep]_vars

\* The completion of a submission enables the primary button again.
SubmittingResumesStep ==
    ev'.op = "callback" /\ ev'.by = "finished" => scanner'.primary_enabled

SubmittingResumes == [][SubmittingResumesStep]_vars

\* A click of the primary button starts a submission only when the button
\* was enabled, which it is not from _submit to the first on_finish.
ButtonHeldStep ==
    StartsRun /\ ev'.by = "primary_button" =>
        scanner.primary_enabled /\ ~scanner'.primary_enabled

ButtonHeld == [][ButtonHeldStep]_vars

\* Two submissions of one box and tracking number in flight, the second
\* started by Enter in the tracking-number field.
TwoSubmissions ==
    /\ Cardinality(InFlightRuns) = 2
    /\ \A t \in InFlightRuns : scanner.run[t].boxid = "B1"
                                 /\ scanner.run[t].ttn = "T1"
    /\ ~scanner.primary_enabled
    /\ ev.op = "submitted" /\ ev.by = "ttn_input"

====
